---- MODULE Spec2Model ----
(***************************************************************************)
(* Verification model of the livemore quant system: the backtest ledger    *)
(* (BacktestEngine.execute_trade / reset / calculate_equity), the          *)
(* scheduler (BacktestEngine.run_backtest), the metrics                    *)
(* (BacktestEngine.calculate_backtest_metrics), the signal generator and   *)
(* position sizing (LivermoreStrategy), the simulate variant               *)
(* (SimulationEngine) and the rate limiter of the DataHandler.             *)
(*                                                                         *)
(* Numbers.  The program computes with Python floats; the model computes   *)
(* with exact integers in fixed units, and the inputs are chosen so that   *)
(* every product and quotient below is exact, but for the position-size    *)
(* quotient on the inputs listed in FloatQuotientShort:                    *)
(*   money  : mills  (1/1000 yuan), Yuan(n) = n * 1000                     *)
(*   price  : cents  (1/100 yuan)                                          *)
(*   volume : shares                                                       *)
(*   a date string 'YYYY-MM-DD' : a day number                             *)
(*   a pandas Timestamp         : day * TicksPerDay + tick of the day      *)
(***************************************************************************)
EXTENDS Integers, Sequences, FiniteSets, TLC

VARIABLES
    initial_capital,   \* BacktestEngine.initial_capital
    current_capital,   \* BacktestEngine.current_capital (cash)
    positions,         \* BacktestEngine.positions : symbol -> Position
    trade_log,         \* BacktestEngine.trade_log : list of trade records
    equity_curve,      \* BacktestEngine.equity_curve : list of (date, equity)
    ret,               \* what the last call returned and printed
    pc,                \* "idle", or "loop" while run_backtest is in its date loop
    run_args,          \* the arguments of the run_backtest call in progress
    all_dates,         \* run_backtest's all_dates
    date_i,            \* position of the date loop in all_dates
    symbol_i,          \* position of the symbol loop in symbols
    daily_trades,      \* run_backtest's daily_trades
    result,            \* the BacktestResult last returned
    prev_run,          \* arguments, curve, log and result of the last finished run
    result_shares_log, \* whether result.trade_log is the very list self.trade_log
    runs,              \* number of run_backtest calls made
    account,           \* SimulationEngine.account : SimulationAccount
    is_running,        \* SimulationEngine.is_running, the stop flag
    sim_run,           \* where run_simulation stands: pc, arguments, dates, loop positions
    sim_ret,           \* what the last call on the SimulationEngine returned
    now,               \* time.time(), in tenths of a second
    last_request_time, \* DataHandler.last_request_time
    workers,           \* each fetching thread's place in get_daily_data
    requests,          \* the times at which requests went out, in order
    data_cache,        \* DataHandler.data_cache : cache key -> frame
    cache_files,       \* the files of DataHandler.cache_dir : cache key -> content
    handler_ret,       \* what the last call on the DataHandler returned
    calls,             \* the calls the last get_daily_data made, in order
    market,            \* where get_market_data stands: its futures and its result
    live_account,      \* LiveTradingEngine.account : LiveAccount
    orders,            \* the Order objects made so far : object -> fields
    pending_orders,    \* LiveTradingEngine.pending_orders : list of Order objects
    order_history,     \* LiveTradingEngine.order_history : list of Order objects
    live_ret           \* what the last call on the LiveTradingEngine returned

run_vars == <<pc, run_args, all_dates, date_i, symbol_i, daily_trades, result, prev_run, runs>>

\* the state of the SimulationEngine and of the DataHandler
sim_vars == <<account, is_running, sim_run, sim_ret>>

handler_vars == <<now, last_request_time, workers, requests>>

\* the caches of the DataHandler and the calls that go through them
cache_vars == <<data_cache, cache_files, handler_ret, calls, market>>

\* the state of the LiveTradingEngine
live_vars == <<live_account, orders, pending_orders, order_history, live_ret>>

outside_backtest == <<sim_vars, handler_vars, cache_vars, live_vars>>

outside_sim == <<handler_vars, cache_vars, live_vars>>

outside_limiter == <<sim_vars, cache_vars, live_vars>>

\* the state of the BacktestEngine and of the calls made on it
backtest_vars ==
    <<initial_capital, current_capital, positions, trade_log, equity_curve, ret,
      pc, run_args, all_dates, date_i, symbol_i, daily_trades, result, prev_run, runs,
      result_shares_log>>

vars == <<initial_capital, current_capital, positions, trade_log, equity_curve, ret,
          pc, run_args, all_dates, date_i, symbol_i, daily_trades, result, prev_run, runs,
          result_shares_log, account, is_running, sim_run, sim_ret, now,
          last_request_time, workers, requests, data_cache, cache_files,
          handler_ret, calls, market, live_account, orders, pending_orders,
          order_history, live_ret>>

ledger == <<current_capital, positions, trade_log, equity_curve>>

\* what a variable holds before the call that gives it its first record:
\* run_backtest's arguments and result before the first run, run_simulation's
\* arguments before the first simulation
Unset == [unset |-> TRUE]

----------------------------------------------------------------------------
(* Units and conversions *)

Yuan(n) == n * 1000

\* value in mills of `quantity` shares at `price` cents
Amount(quantity, price) == quantity * price * 10

TicksPerDay == 2

\* pd.to_datetime('YYYY-MM-DD'): midnight of that day
to_datetime(day) == day * TicksPerDay

\* Timestamp.strftime('%Y-%m-%d'): the day, the time of day is dropped
strftime(ts) == ts \div TicksPerDay

Min(a, b) == IF a <= b THEN a ELSE b

Max(a, b) == IF a >= b THEN a ELSE b

RECURSIVE GCD(_, _)
GCD(a, b) == IF b = 0 THEN a ELSE GCD(b, a % b)

\* a rational number num/den in lowest terms, den > 0 (a float holding a quotient)
Ratio(num, den) ==
    LET g == GCD(IF num < 0 THEN -num ELSE num, den)
    IN  [num |-> num \div g, den |-> den \div g]

\* sorted(S) for a set of integers
RECURSIVE SortedSeq(_)
SortedSeq(S) ==
    IF S = {} THEN << >>
    ELSE LET m == CHOOSE x \in S : \A y \in S : x <= y
         IN  << m >> \o SortedSeq(S \ {m})

\* floor(c * 10^k / d) for c >= 0, d > 0, by long division (no wide product)
RECURSIVE LongDiv(_, _, _)
LongDiv(c, d, k) ==
    IF k = 0 THEN c \div d
    ELSE (c \div d) * (10 ^ k) + LongDiv((c % d) * 10, d, k - 1)

\* Python int(x): truncation toward zero of c * 10^k / d
TruncDiv(c, d, k) == IF c >= 0 THEN LongDiv(c, d, k) ELSE -LongDiv(-c, d, k)

----------------------------------------------------------------------------
(* Program constants *)

LOT_SIZE == 100              \* shares per lot
MIN_COMMISSION == 5          \* yuan
COMMISSION_RATE_E4 == 3      \* commission_rate 0.0003 = 3 / 10^4
TAX_RATE_E3 == 1             \* stamp tax 0.001 = 1 / 10^3
RISK_PER_TRADE_E2 == 2       \* risk_per_trade 0.02 = 2 / 10^2
WARMUP_BARS == 50            \* bars a slice needs before signals are generated
DEFAULT_VOLUME == 1000       \* raw volume of every generated signal
MA_FAST == 10                \* window of ma_10
MA_SLOW == 20                \* window of ma_20, volume_ma_20, volatility_20, support, resistance
MOOD_SENSITIVITY_E1 == 8     \* market_mood_sensitivity 0.8 = 8 / 10

----------------------------------------------------------------------------
(* Inputs *)

Symbols == {"X", "Y"}

MaxLog == 3

\* engine constructions: BacktestEngine(initial_capital=...)
InitialCapitals == {Yuan(10), Yuan(1500), Yuan(100000)}

\* the dates '2024-01-01' and '2024-01-02' of test_trade_details
TestDates == << 1, 2 >>
D1 == TestDates[1]
D2 == TestDates[2]

\* (date, price in cents, volume in shares) of the signals submitted directly
Orders ==
    { <<D1, 1000, 1000>>, <<D2, 1200, 1000>>, <<D1, 10000, 600>>,
      <<D2, 1000, 50>>, <<D1, 4, 100>>, <<D2, 4, 1000>> }

TradeSignal(date, symbol, action, price, volume, reason, confidence) ==
    [date |-> date, symbol |-> symbol, action |-> action, price |-> price,
     volume |-> volume, reason |-> reason, confidence |-> confidence]

DirectSignals ==
    { TradeSignal(o[1], s, a, o[2], o[3], "Test signal", 800) :
        s \in Symbols, a \in {"BUY", "SELL"}, o \in Orders }

Quote(ts, close) == [date |-> ts, close |-> close]

\* the quote table of test_trade_details: X closes 10.0 on D1 and 12.0 on D2
TestQuotes ==
    [s \in {"X"} |-> << Quote(to_datetime(D1), 1000), Quote(to_datetime(D2), 1200) >>]

DirectMarketData == {TestQuotes}

\* Daily bars (the open column is read by nothing modelled here).  A table is
\* a run of flat bars followed by event bars: F flat, U up 10% on 3x volume,
\* S a volume spike, C a 50% crash.
Bar(day, high, low, close, volume) ==
    [date |-> to_datetime(day), high |-> high, low |-> low, close |-> close,
     volume |-> volume]

EventBar(e, day, prev) ==
    CASE e = "F" -> Bar(day, prev, prev, prev, 10)
      [] e = "U" -> Bar(day, (prev * 11) \div 10, prev, (prev * 11) \div 10, 30)
      [] e = "S" -> Bar(day, prev, prev, prev, 210)
      [] e = "C" -> Bar(day, prev, prev \div 2, prev \div 2, 42)

\* the close before the n-th event
RECURSIVE CloseBefore(_, _, _)
CloseBefore(events, n, base) ==
    IF n = 1 THEN base
    ELSE EventBar(events[n - 1], 0, CloseBefore(events, n - 1, base)).close

\* nflat flat bars from `day` on at `base`, then the events, one bar a day
BuildTable(day, nflat, events, base) ==
    [k \in 1..(nflat + Len(events)) |->
        IF k <= nflat THEN EventBar("F", day + k - 1, base)
        ELSE EventBar(events[k - nflat], day + k - 1,
                      CloseBefore(events, k - nflat, base))]

\* 49 flat bars on days 1..49 at 10.00, then three events on days 50, 51, 52
TableUSC == BuildTable(1, 49, << "U", "S", "C" >>, 1000)
TableFUF == BuildTable(1, 49, << "F", "U", "F" >>, 1000)
TableUFU == BuildTable(1, 49, << "U", "F", "U" >>, 1000)
TableFFF == BuildTable(1, 49, << "F", "F", "F" >>, 1000)
TableFSC == BuildTable(1, 49, << "F", "S", "C" >>, 1000)
\* the same events on a history that starts on day 20 and goes on to day 53:
\* 31 bars on day 50, 34 on day 53
TableShort == BuildTable(20, 30, << "U", "S", "C", "F" >>, 1000)
\* the events of TableUSC on a share that trades at 1.00
TableCheap == BuildTable(1, 49, << "U", "S", "C" >>, 100)
\* TableUSC with another bar on day 52, and TableUSC going on to day 53
TableUSF == BuildTable(1, 49, << "U", "S", "F" >>, 1000)
TableUSCF == BuildTable(1, 49, << "U", "S", "C", "F" >>, 1000)

MarketData(id) ==
    CASE id = "usc_usc" -> [s \in {"X", "Y"} |-> TableUSC]
      [] id = "cheap_fuf" -> [s \in {"X", "Y"} |-> IF s = "X" THEN TableCheap ELSE TableFUF]
      [] id = "ufu_short" -> [s \in {"X", "Y"} |-> IF s = "X" THEN TableUFU ELSE TableShort]
      [] id = "x_only" -> [s \in {"X"} |-> TableUSC]
      [] id = "fff_fsc" -> [s \in {"X", "Y"} |-> IF s = "X" THEN TableFFF ELSE TableFSC]
      [] id = "usf_usc" -> [s \in {"X", "Y"} |-> IF s = "X" THEN TableUSF ELSE TableUSC]
      [] id = "uscf_usc" -> [s \in {"X", "Y"} |-> IF s = "X" THEN TableUSCF ELSE TableUSC]

\* the arguments of one call run_backtest(symbols, market_data, start_date, end_date)
Args(symbols, market_data, start_date, end_date) ==
    [symbols |-> symbols, market_data |-> market_data, start_date |-> start_date,
     end_date |-> end_date]

RunArgs ==
    { Args(<< "X", "Y" >>, "usc_usc", 49, 52),
      Args(<< "Y", "X" >>, "usc_usc", 49, 52),
      Args(<< "X", "Y" >>, "ufu_short", 49, 53),
      Args(<< "X", "Y" >>, "x_only", 50, 51),
      Args(<< "Y", "X" >>, "fff_fsc", 49, 52),
      Args(<< "X" >>, "cheap_fuf", 50, 51),
      Args(<< "Y" >>, "x_only", 50, 51) }

MaxRuns == 2

\* Scenario C submitted directly: 600 shares at 100.00, of X and of Y
ScenarioC(symbol) == TradeSignal(D1, symbol, "BUY", 10000, 600, "Test signal", 800)

ScenarioSignals == { ScenarioC(s) : s \in Symbols }

----------------------------------------------------------------------------
(* BacktestEngine: the ledger *)

\* the Position dataclass; current_price and unrealized_pnl keep their defaults
Position(symbol, quantity, avg_price, entry_date) ==
    [symbol |-> symbol, quantity |-> quantity, avg_price |-> avg_price,
     entry_date |-> entry_date, current_price |-> 0, unrealized_pnl |-> 0]

NoPositions == [s \in {} |-> 0]

\* dict assignment d[k] = v
DictSet(d, k, v) == [x \in DOMAIN d \cup {k} |-> IF x = k THEN v ELSE d[x]]

\* del d[k]
DictDel(d, k) == [x \in DOMAIN d \ {k} |-> d[x]]

\* the rows of a table whose date equals pd.to_datetime(date)
RowsOn(table, date) ==
    SelectSeq(table, LAMBDA bar : bar.date = to_datetime(date))

\* a position valued at the last close of its table, whatever the date
PositionValueLatest(position, market_data, current_date) ==
    IF position.symbol \in DOMAIN market_data
       /\ market_data[position.symbol] # << >>
    THEN LET rows == market_data[position.symbol]
         IN  Amount(position.quantity, rows[Len(rows)].close)
    ELSE 0

\* a position valued at the last close dated no later than current_date
PositionValueCarried(position, market_data, current_date) ==
    IF position.symbol \in DOMAIN market_data
       /\ SelectSeq(market_data[position.symbol],
                    LAMBDA bar : bar.date <= to_datetime(current_date)) # << >>
    THEN LET rows == SelectSeq(market_data[position.symbol],
                               LAMBDA bar : bar.date <= to_datetime(current_date))
         IN  Amount(position.quantity, rows[Len(rows)].close)
    ELSE 0

\* quantity * close of one held symbol on current_date; 0 when the symbol has no
\* table or no row dated exactly current_date
PositionValue(position, market_data, current_date) ==
    IF position.symbol \in DOMAIN market_data
       /\ RowsOn(market_data[position.symbol], current_date) # << >>
    THEN Amount(position.quantity,
                RowsOn(market_data[position.symbol], current_date)[1].close)
    ELSE 0

RECURSIVE HoldingsValue(_, _, _, _)
HoldingsValue(S, pos, market_data, current_date) ==
    IF S = {} THEN 0
    ELSE LET s == CHOOSE y \in S : TRUE
         IN  PositionValue(pos[s], market_data, current_date)
               + HoldingsValue(S \ {s}, pos, market_data, current_date)

\* calculate_equity: cash plus the value of every held position
calculate_equity(cash, pos, market_data, current_date) ==
    cash + HoldingsValue(DOMAIN pos, pos, market_data, current_date)

\* a commission that is never charged
CommissionWaived(amount) == 0

\* max(amount * commission_rate, 5)
Commission(amount) ==
    Max((amount * COMMISSION_RATE_E4) \div 10000, Yuan(MIN_COMMISSION))

\* a stamp tax that is never charged
StampTaxFree(revenue) == 0

\* revenue * 0.001
StampTax(revenue) == (revenue * TAX_RATE_E3) \div 1000

\* int(current_capital / (price * (1 + commission_rate)))
max_affordable(cash, price) ==
    TruncDiv(cash, price * (10000 + COMMISSION_RATE_E4), 3)

\* a BUY volume that skips the rounding to the lot
BuyVolumeUnrounded(cash, price, volume) == Min(volume, max_affordable(cash, price))

\* min(volume, max_affordable // 100 * 100)
BuyVolume(cash, price, volume) ==
    Min(volume, (max_affordable(cash, price) \div LOT_SIZE) * LOT_SIZE)

\* min(volume, held quantity)
SellVolume(held, volume) == Min(volume, held)

\* a BUY that averages the two prices without their quantities
BuyPositionsUnweighted(pos, signal, actual) ==
    IF signal.symbol \in DOMAIN pos
    THEN LET old == pos[signal.symbol]
         IN  DictSet(pos, signal.symbol,
                     Position(signal.symbol, old.quantity + actual,
                              Ratio(old.avg_price.num + signal.price * old.avg_price.den,
                                    2 * old.avg_price.den),
                              old.entry_date))
    ELSE DictSet(pos, signal.symbol,
                 Position(signal.symbol, actual, Ratio(signal.price, 1), signal.date))

\* the positions after a filled BUY of `actual` shares
BuyPositions(pos, signal, actual) ==
    IF signal.symbol \in DOMAIN pos
    THEN LET old == pos[signal.symbol]
             new_quantity == old.quantity + actual
             \* (old.avg_price * old.quantity + price * actual) / new_quantity
             new_avg_price ==
                 Ratio(old.avg_price.num * old.quantity
                         + signal.price * actual * old.avg_price.den,
                       old.avg_price.den * new_quantity)
         IN  DictSet(pos, signal.symbol,
                     Position(signal.symbol, new_quantity, new_avg_price, old.entry_date))
    ELSE DictSet(pos, signal.symbol,
                 Position(signal.symbol, actual, Ratio(signal.price, 1), signal.date))

\* a SELL that keeps the entry of a position sold out
SellPositionsKeepEmpty(pos, signal, actual) ==
    LET old == pos[signal.symbol]
    IN  DictSet(pos, signal.symbol,
                Position(signal.symbol, old.quantity - actual, old.avg_price,
                         old.entry_date))

\* the positions after a filled SELL of `actual` shares
SellPositions(pos, signal, actual) ==
    LET old == pos[signal.symbol]
        remaining_quantity == old.quantity - actual
    IN  IF remaining_quantity = 0
        THEN DictDel(pos, signal.symbol)
        ELSE DictSet(pos, signal.symbol,
                     Position(signal.symbol, remaining_quantity, old.avg_price,
                              old.entry_date))

\* a trade record that logs the volume asked for, not the volume filled
TradeRecordRequested(signal, actual, commission, cash, pos, market_data) ==
    [date |-> signal.date, symbol |-> signal.symbol, action |-> signal.action,
     price |-> signal.price, quantity |-> signal.volume, commission |-> commission,
     reason |-> signal.reason, capital_after |-> cash,
     equity |-> calculate_equity(cash, pos, market_data, signal.date)]

TradeRecord(signal, actual, commission, cash, pos, market_data) ==
    [date |-> signal.date, symbol |-> signal.symbol, action |-> signal.action,
     price |-> signal.price, quantity |-> actual, commission |-> commission,
     reason |-> signal.reason, capital_after |-> cash,
     equity |-> calculate_equity(cash, pos, market_data, signal.date)]

\* what a call returned (ok: "True" or "False" of execute_trade, "NameError" when it
\* raised, "none" for a call that returns nothing) and the diagnostic it printed
Returned(op, ok, debug) == [op |-> op, ok |-> ok, debug |-> debug]

\* a rejection that has already charged the minimum commission
RejectedCharged(cash, pos, log, debug) ==
    [ok |-> "False", debug |-> debug, cash |-> cash - Yuan(MIN_COMMISSION),
     positions |-> pos, log |-> log]

\* a rejection that leaves a record of zero shares in the log
RejectedRecorded(cash, pos, log, debug) ==
    [ok |-> "False", debug |-> debug, cash |-> cash, positions |-> pos,
     log |-> Append(log, [date |-> 0, symbol |-> "X", action |-> "REJECTED", price |-> 0,
                          quantity |-> 0, commission |-> 0, reason |-> debug,
                          capital_after |-> cash, equity |-> cash])]

Rejected(cash, pos, log, debug) ==
    [ok |-> "False", debug |-> debug, cash |-> cash, positions |-> pos, log |-> log]

\* a fill whose record is put at the head of the log
FilledPrepended(cash, pos, log, signal, actual, commission, market_data) ==
    [ok |-> "True", debug |-> "none", cash |-> cash, positions |-> pos,
     log |-> << TradeRecord(signal, actual, commission, cash, pos, market_data) >> \o log]

Filled(cash, pos, log, signal, actual, commission, market_data) ==
    [ok |-> "True", debug |-> "none", cash |-> cash, positions |-> pos,
     log |-> Append(log, TradeRecord(signal, actual, commission, cash, pos, market_data))]

\* an action that is neither BUY nor SELL logged as a trade of no shares
UnboundLogged(cash, pos, log, signal) ==
    [ok |-> "True", debug |-> "none", cash |-> cash, positions |-> pos,
     log |-> Append(log, [date |-> signal.date, symbol |-> signal.symbol,
                          action |-> signal.action, price |-> signal.price,
                          quantity |-> 0, commission |-> 0, reason |-> signal.reason,
                          capital_after |-> cash, equity |-> cash])]

\* an action that is neither BUY nor SELL: neither branch binds actual_volume
\* and commission, and building trade_record raises NameError
\* (UnboundLocalError) before anything is appended or changed
Unbound(cash, pos, log, signal) ==
    [ok |-> "NameError", debug |-> "none", cash |-> cash, positions |-> pos,
     log |-> log]

\* execute_trade: the outcome of one call on the ledger (cash, pos, log)
execute_trade(cash, pos, log, signal, market_data) ==
    IF signal.action = "BUY"
    THEN LET actual_volume == BuyVolume(cash, signal.price, signal.volume)
             cost == Amount(actual_volume, signal.price)
             commission == Commission(cost)
             total_cost == cost + commission
         IN  IF actual_volume <= 0
             THEN Rejected(cash, pos, log, "no funds to buy")
             ELSE IF total_cost > cash
             THEN Rejected(cash, pos, log, "cost exceeds capital")
             ELSE Filled(cash - total_cost, BuyPositions(pos, signal, actual_volume),
                         log, signal, actual_volume, commission, market_data)
    ELSE IF signal.action = "SELL"
    THEN IF signal.symbol \notin DOMAIN pos \/ pos[signal.symbol].quantity = 0
         THEN Rejected(cash, pos, log, "no position to sell")
         ELSE LET actual_volume == SellVolume(pos[signal.symbol].quantity, signal.volume)
                  revenue == Amount(actual_volume, signal.price)
                  commission == Commission(revenue)
                  tax == StampTax(revenue)
                  total_revenue == revenue - commission - tax
              IN  Filled(cash + total_revenue, SellPositions(pos, signal, actual_volume),
                         log, signal, actual_volume, commission, market_data)
    ELSE Unbound(cash, pos, log, signal)

\* a reset that forgets to empty the position map
resetKeepPositions(capital) ==
    [cash |-> capital, positions |-> positions, log |-> << >>, curve |-> << >>]

\* a reset that forgets to empty the equity curve
resetKeepCurve(capital) ==
    [cash |-> capital, positions |-> NoPositions, log |-> << >>, curve |-> equity_curve]

\* reset: the ledger fields after reset()
reset(capital) ==
    [cash |-> capital, positions |-> NoPositions, log |-> << >>, curve |-> << >>]

----------------------------------------------------------------------------
(* DataHandler.calculate_technical_indicators and LivermoreStrategy.          *)
(* A rolling window of w rows is NaN before row w, and a comparison with NaN  *)
(* is False: every comparison below carries the row bound that makes its      *)
(* operands defined.  Rows are numbered from 1 (iloc[k - 1]).  Means are      *)
(* compared through their sums.                                               *)

Abs(x) == IF x < 0 THEN -x ELSE x

RECURSIVE SumCol(_, _, _, _)
SumCol(df, col, lo, hi) ==
    IF lo > hi THEN 0
    ELSE IF lo = hi THEN df[lo][col]
    ELSE SumCol(df, col, lo, (lo + hi) \div 2) + SumCol(df, col, (lo + hi) \div 2 + 1, hi)

MaxCol(df, col, lo, hi) ==
    df[CHOOSE i \in lo..hi : \A j \in lo..hi : df[i][col] >= df[j][col]][col]

MinCol(df, col, lo, hi) ==
    df[CHOOSE i \in lo..hi : \A j \in lo..hi : df[i][col] <= df[j][col]][col]

\* df[col].rolling(window=w).sum() at row k
rolling_sum(df, col, k, w) == SumCol(df, col, k - w + 1, k)

\* sort_values('date'): the rows in date order, rows of equal date in table order
sort_values(df) ==
    LET n == Len(df)
        \* the place of row j in the sorted table
        place(j) == Cardinality({ i \in 1..n : df[i].date < df[j].date
                                                \/ (df[i].date = df[j].date /\ i <= j) })
    IN  IF \A k \in 1..(n - 1) : df[k].date <= df[k + 1].date THEN df
        ELSE [k \in 1..n |-> df[CHOOSE j \in 1..n : place(j) = k]]

\* calculate_technical_indicators: the table sorted by date; the indicator
\* columns are the operators below, evaluated on the sorted table
calculate_technical_indicators(df) == sort_values(df)

\* df['pct_change'] at row k >= 2, in tenths (closes of the tables move by
\* multiples of 10%)
pct_change(df, k) == ((df[k].close - df[k - 1].close) * 10) \div df[k - 1].close

RECURSIVE SumPct(_, _, _, _)
SumPct(df, power, lo, hi) ==
    IF lo > hi THEN 0
    ELSE IF lo = hi THEN pct_change(df, lo) ^ power
    ELSE SumPct(df, power, lo, (lo + hi) \div 2)
           + SumPct(df, power, (lo + hi) \div 2 + 1, hi)

\* df['volatility_20'] at row k >= 21: the sample variance of the last 20
\* pct_change values is volatility_sq / (20 * 19), in tenths squared
volatility_sq(df, k) ==
    LET sum == SumPct(df, 1, k - MA_SLOW + 1, k)
    IN  MA_SLOW * SumPct(df, 2, k - MA_SLOW + 1, k) - sum * sum

\* detect_trend at row k: 1 up, -1 down, 0 none; zeroed unless
\* abs(trend_strength) > 0.05
detect_trend(df, k) ==
    LET fast(j) == rolling_sum(df, "close", j, MA_FAST)
        slow == rolling_sum(df, "close", k, MA_SLOW)
        defined == k >= MA_SLOW /\ k - 1 >= MA_FAST
        up == defined /\ fast(k) * MA_SLOW > slow * MA_FAST /\ fast(k) > fast(k - 1)
        down == defined /\ fast(k) * MA_SLOW < slow * MA_FAST /\ fast(k) < fast(k - 1)
        trend == IF down THEN -1 ELSE IF up THEN 1 ELSE 0
        strong_trend == k >= MA_SLOW /\ Abs(df[k].close * MA_SLOW - slow) * 100 > slow * 5
    IN  trend * (IF strong_trend THEN 1 ELSE 0)

\* df['volume_ratio'] > 1.2
volume_confirmation(df, k) ==
    k >= MA_SLOW /\ df[k].volume * MA_SLOW * 10 > rolling_sum(df, "volume", k, MA_SLOW) * 12

\* detect_breakout at row k
breakout_up(df, k) ==
    /\ k - 1 >= MA_SLOW
    /\ df[k].close > MaxCol(df, "high", k - MA_SLOW, k - 1)
    /\ df[k].close > df[k - 1].close
    /\ volume_confirmation(df, k)

breakout_down(df, k) ==
    /\ k - 1 >= MA_SLOW
    /\ df[k].close < MinCol(df, "low", k - MA_SLOW, k - 1)
    /\ df[k].close < df[k - 1].close
    /\ volume_confirmation(df, k)

\* assess_market_mood at row k >= 21:
\*   mood = clip(0.5 + 0.3 * pct_change + 0.2 * volume.pct_change() - 0.1 * volatility_20)
\* MoodNum(df, k, t) / df[k-1].volume is 10 * (mood + 0.1 * volatility_20 - t / 10)
MoodNum(df, k, t) ==
    (3 * pct_change(df, k) - 10 * (t - 5)) * df[k - 1].volume
      + 20 * (df[k].volume - df[k - 1].volume)

\* mood > t / 10
mood_above(df, k, t) ==
    /\ k - MA_SLOW >= 1
    /\ LET num == MoodNum(df, k, t)
       IN  /\ num > 0
           /\ num * num > (df[k - 1].volume * df[k - 1].volume * volatility_sq(df, k))
                             \div (MA_SLOW * (MA_SLOW - 1))

\* mood < t / 10
mood_below(df, k, t) ==
    /\ k - MA_SLOW >= 1
    /\ LET num == MoodNum(df, k, t)
       IN  \/ num < 0
           \/ num * num <= (df[k - 1].volume * df[k - 1].volume * volatility_sq(df, k) - 1)
                              \div (MA_SLOW * (MA_SLOW - 1))

ISqrt(x) == CHOOSE n \in 0..(x + 1) : n * n <= x /\ (n + 1) * (n + 1) > x

\* mood at row k >= 21 in thousandths, to the thousandth below
mood_e3(df, k) ==
    LET raw == 500 + 30 * pct_change(df, k)
                 + (200 * (df[k].volume - df[k - 1].volume)) \div df[k - 1].volume
                 - ISqrt((100 * volatility_sq(df, k)) \div (MA_SLOW * (MA_SLOW - 1))) - 1
    IN  Max(0, Min(1000, raw))

\* a generator that passes the bar's own volume on as the order volume
RowSignalBarVolume(df, symbol, k) ==
    LET trend == detect_trend(df, k)
    IN  IF trend = 1 /\ breakout_up(df, k) /\ mood_above(df, k, MOOD_SENSITIVITY_E1)
        THEN << TradeSignal(strftime(df[k].date), symbol, "BUY", df[k].close,
                            df[k].volume, "Trend up + Breakout up + Positive mood",
                            Min(1000, mood_e3(df, k))) >>
        ELSE IF trend = -1 /\ breakout_down(df, k)
                           /\ mood_below(df, k, 10 - MOOD_SENSITIVITY_E1)
        THEN << TradeSignal(strftime(df[k].date), symbol, "SELL", df[k].close,
                            df[k].volume, "Trend down + Breakout down + Negative mood",
                            Min(1000, 1000 - mood_e3(df, k))) >>
        ELSE << >>

\* the signal generate_signals emits for row k, << >> when it emits none
RowSignal(df, symbol, k) ==
    LET trend == detect_trend(df, k)
        buy_signal ==
            /\ trend = 1
            /\ breakout_up(df, k)
            /\ mood_above(df, k, MOOD_SENSITIVITY_E1)
        sell_signal ==
            /\ trend = -1
            /\ breakout_down(df, k)
            /\ mood_below(df, k, 10 - MOOD_SENSITIVITY_E1)
    IN  IF buy_signal
        THEN << TradeSignal(strftime(df[k].date), symbol, "BUY", df[k].close,
                            DEFAULT_VOLUME, "Trend up + Breakout up + Positive mood",
                            Min(1000, mood_e3(df, k))) >>
        ELSE IF sell_signal
        THEN << TradeSignal(strftime(df[k].date), symbol, "SELL", df[k].close,
                            DEFAULT_VOLUME, "Trend down + Breakout down + Negative mood",
                            Min(1000, 1000 - mood_e3(df, k))) >>
        ELSE << >>

\* a generator that remembers what it has emitted and emits nothing twice
generate_signals_once(df, symbol) ==
    IF ret.op = "generate_signals" THEN << >>
    ELSE LET rows == SortedSeq({ k \in 2..Len(df) : RowSignal(df, symbol, k) # << >> })
         IN  [i \in 1..Len(rows) |-> RowSignal(df, symbol, rows[i])[1]]

\* generate_signals: for i in range(1, len(df)), the signals in row order
generate_signals(df, symbol) ==
    LET rows == SortedSeq({ k \in 2..Len(df) : RowSignal(df, symbol, k) # << >> })
    IN  [i \in 1..Len(rows) |-> RowSignal(df, symbol, rows[i])[1]]

\* the prices (cents) and balances (mills) calculate_position_size is called on
\* directly
SizePrices == {55, 100, 110, 275, 550, 1000, 1100, 10000}
SizeBalances ==
    { Yuan(b) : b \in {0, 10, 1500, 5500, 11000, 13750, 16500, 22000, 27500, 50000,
                       55000, 89995, 100000} }

\* the inputs (price, balance) among these for which account_balance * 0.02 / price,
\* evaluated in binary floating point, comes out just below its exact integer
\* value (11000 * 0.02 / 1.1 is 199.99999999999997), so that int() gives one less;
\* on every other input of the model the float quotient truncates to the exact one
FloatQuotientShort ==
    { << 55, Yuan(5500) >>, << 55, Yuan(11000) >>, << 55, Yuan(13750) >>,
      << 55, Yuan(22000) >>, << 55, Yuan(27500) >>, << 55, Yuan(55000) >>,
      << 110, Yuan(11000) >>, << 110, Yuan(22000) >>, << 110, Yuan(27500) >>,
      << 110, Yuan(55000) >> }

\* calculate_position_size(price, account_balance, risk_per_trade = 0.02)
calculate_position_size(price, account_balance) ==
    LET quotient == TruncDiv(account_balance * RISK_PER_TRADE_E2, price * 1000, 0)
        position_size == IF << price, account_balance >> \in FloatQuotientShort
                         THEN quotient - 1 ELSE quotient
    IN  Max((position_size \div LOT_SIZE) * LOT_SIZE, LOT_SIZE)

----------------------------------------------------------------------------
(* BacktestEngine.run_backtest and calculate_backtest_metrics *)

\* all_dates without the window filter
AllDatesUnwindowed(args) ==
    LET market_data == MarketData(args.market_data)
        listed == { args.symbols[i] : i \in 1..Len(args.symbols) } \cap DOMAIN market_data
    IN  SortedSeq(UNION { { market_data[s][k].date : k \in 1..Len(market_data[s]) } :
                          s \in listed })

\* all_dates: the dates of the listed symbols' tables within the window, sorted
AllDates(args) ==
    LET market_data == MarketData(args.market_data)
        listed == { args.symbols[i] : i \in 1..Len(args.symbols) } \cap DOMAIN market_data
        dates == UNION { { market_data[s][k].date : k \in 1..Len(market_data[s]) } :
                         s \in listed }
    IN  SortedSeq({ d \in dates :
                      to_datetime(args.start_date) <= d /\ d <= to_datetime(args.end_date) })

\* a symbol loop that walks the list from its end
SymbolAtReversed(symbols, i) == symbols[Len(symbols) - i + 1]

\* the symbol the symbol loop handles at its i-th iteration
SymbolAt(symbols, i) == symbols[i]

\* a volume replaced by the position size, whichever is larger
ShrunkVolumeReplaced(volume, adjusted_volume) == adjusted_volume

\* signal.volume = min(signal.volume, adjusted_volume)
ShrunkVolume(volume, adjusted_volume) == Min(volume, adjusted_volume)

\* a loop that executes every signal of the slice, whatever its date
RECURSIVE SubmitSignalsAnyDate(_, _, _, _)
SubmitSignalsAnyDate(state, signals, date_str, market_data) ==
    IF signals = << >> THEN state
    ELSE LET signal == Head(signals)
             adjusted_volume == calculate_position_size(signal.price, state.cash)
             shrunk == [signal EXCEPT
                          !.volume = ShrunkVolume(signal.volume, adjusted_volume)]
             r == execute_trade(state.cash, state.positions, state.log, shrunk,
                                market_data)
         IN  SubmitSignalsAnyDate(
                 [cash |-> r.cash, positions |-> r.positions, log |-> r.log,
                  trades |-> state.trades + (IF r.ok = "True" THEN 1 ELSE 0),
                  ret |-> Returned("execute_trade", r.ok, r.debug)],
                 Tail(signals), date_str, market_data)

\* for signal in signals: if signal.date == current_date_str: shrink and execute
RECURSIVE SubmitSignals(_, _, _, _)
SubmitSignals(state, signals, date_str, market_data) ==
    IF signals = << >> THEN state
    ELSE LET signal == Head(signals)
         IN  IF signal.date # date_str
             THEN SubmitSignals(state, Tail(signals), date_str, market_data)
             ELSE LET adjusted_volume == calculate_position_size(signal.price, state.cash)
                      shrunk == [signal EXCEPT
                                   !.volume = ShrunkVolume(signal.volume, adjusted_volume)]
                      r == execute_trade(state.cash, state.positions, state.log, shrunk,
                                         market_data)
                  IN  SubmitSignals(
                          [cash |-> r.cash, positions |-> r.positions, log |-> r.log,
                           trades |-> state.trades + (IF r.ok = "True" THEN 1 ELSE 0),
                           ret |-> Returned("execute_trade", r.ok, r.debug)],
                          Tail(signals), date_str, market_data)

\* a symbol loop body without the warm-up test
ProcessSymbolNoWarmup(state, symbol, market_data, current_date) ==
    IF symbol \notin DOMAIN market_data THEN state
    ELSE LET stock_data == SelectSeq(market_data[symbol], LAMBDA b : b.date <= current_date)
         IN  SubmitSignals(state,
                           generate_signals(calculate_technical_indicators(stock_data),
                                            symbol),
                           strftime(current_date), market_data)

\* the body of the symbol loop for one symbol on one date
ProcessSymbol(state, symbol, market_data, current_date) ==
    IF symbol \notin DOMAIN market_data THEN state
    ELSE LET stock_data == SelectSeq(market_data[symbol], LAMBDA b : b.date <= current_date)
         IN  IF Len(stock_data) < WARMUP_BARS THEN state
             ELSE SubmitSignals(state,
                                generate_signals(calculate_technical_indicators(stock_data),
                                                 symbol),
                                strftime(current_date), market_data)

\* floats that are no quotient of integers: float('inf') and NaN
Inf == [num |-> 1, den |-> 0]
NaN == [num |-> 0, den |-> 0]
Zero == Ratio(0, 1)

\* a/b < c/d for a, c >= 0 and b, d > 0, by continued fractions (no wide product)
RECURSIVE RatioLess(_, _, _, _)
RatioLess(a, b, c, d) ==
    IF a \div b # c \div d THEN a \div b < c \div d
    ELSE IF c % d = 0 THEN FALSE
    ELSE IF a % b = 0 THEN TRUE
    ELSE RatioLess(d, c % d, b, a % b)

\* the highest equity of the whole curve, whatever the row
cummax_whole(curve, i) ==
    LET j == CHOOSE j \in 1..Len(curve) : \A k \in 1..Len(curve) : curve[k][2] <= curve[j][2]
    IN  curve[j][2]

\* equity_df['equity'].cummax() at row i
cummax(curve, i) ==
    LET j == CHOOSE j \in 1..i : \A k \in 1..i : curve[k][2] <= curve[j][2]
    IN  curve[j][2]

\* -equity_df['drawdown'] at row i, as << numerator, denominator >>
drawdown(curve, i) == << cummax(curve, i) - curve[i][2], cummax(curve, i) >>

\* abs(equity_df['drawdown'].min())
max_drawdown(curve) ==
    LET worst == CHOOSE i \in 1..Len(curve) :
                     \A j \in 1..Len(curve) :
                         ~RatioLess(drawdown(curve, i)[1], drawdown(curve, i)[2],
                                    drawdown(curve, j)[1], drawdown(curve, j)[2])
    IN  Ratio(drawdown(curve, worst)[1], drawdown(curve, worst)[2])

\* (1 + total_return) ** (365.25 / days) - 1: zero when the return is zero,
\* otherwise the power is kept as a term
annual_return(total_return, days) ==
    IF total_return = Zero THEN Zero
    ELSE [base |-> Ratio(total_return.num + total_return.den, total_return.den),
          exponent_days |-> days]

\* equity_df['return'].std() * sqrt(252): NaN for a single point (the sample
\* deviation of one value), zero when no return differs from zero, otherwise
\* kept as a term over the equity column
volatility(curve) ==
    IF Len(curve) = 1 THEN NaN
    ELSE IF \A i \in 1..Len(curve) : curve[i][2] = curve[1][2] THEN Zero
    ELSE [annualised_std_of |-> [i \in 1..Len(curve) |-> curve[i][2]]]

\* (annual_return - 0.03) / volatility if volatility != 0 else 0
sharpe_ratio(annual, vol) ==
    IF vol = Zero THEN Zero
    ELSE IF vol = NaN THEN NaN
    ELSE [excess_of |-> annual, over |-> vol]

\* buy_trades of the SELL record k: the BUY records of its symbol dated no later
buy_trades(log, k) ==
    { i \in 1..Len(log) :
        /\ log[i].action = "BUY"
        /\ log[i].symbol = log[k].symbol
        /\ to_datetime(log[i].date) <= to_datetime(log[k].date) }

\* the SELL records that have a BUY to be set against
sell_trades(log) ==
    { k \in 1..Len(log) : log[k].action = "SELL" /\ buy_trades(log, k) # {} }

\* (sell_price - buy_trades.iloc[-1]['price']) * quantity, in cents
profit(log, k) ==
    LET last == CHOOSE i \in buy_trades(log, k) : \A j \in buy_trades(log, k) : j <= i
    IN  (log[k].price - log[last].price) * log[k].quantity

\* the sum of the profits over the records S, each with its sign
RECURSIVE SumProfitSigned(_, _)
SumProfitSigned(log, S) ==
    IF S = {} THEN 0
    ELSE LET k == CHOOSE k \in S : TRUE
         IN  profit(log, k) + SumProfitSigned(log, S \ {k})

\* the sum of abs(profit) over the records S
RECURSIVE SumProfit(_, _)
SumProfit(log, S) ==
    IF S = {} THEN 0
    ELSE LET k == CHOOSE k \in S : TRUE
         IN  Abs(profit(log, k)) + SumProfit(log, S \ {k})

\* the degenerate result built from the cash of the moment
EmptyCurveResultFromCash(capital) ==
    [total_return |-> Zero, annual_return |-> Zero, volatility |-> Zero,
     sharpe_ratio |-> Zero, max_drawdown |-> Zero, win_rate |-> Zero,
     profit_factor |-> Zero, total_trades |-> 0, winning_trades |-> 0,
     losing_trades |-> 0, final_equity |-> current_capital, trade_log |-> << >>]

\* the result returned when the equity curve is empty
EmptyCurveResult(capital) ==
    [total_return |-> Zero, annual_return |-> Zero, volatility |-> Zero,
     sharpe_ratio |-> Zero, max_drawdown |-> Zero, win_rate |-> Zero,
     profit_factor |-> Zero, total_trades |-> 0, winning_trades |-> 0,
     losing_trades |-> 0, final_equity |-> capital, trade_log |-> << >>]

\* calculate_backtest_metrics
calculate_backtest_metrics(curve, log, capital) ==
    IF curve = << >> THEN EmptyCurveResult(capital)
    ELSE LET total_return == Ratio(curve[Len(curve)][2] - capital, capital)
             annual == annual_return(total_return, Len(curve))
             vol == volatility(curve)
             winning == { k \in sell_trades(log) : profit(log, k) > 0 }
             losing == sell_trades(log) \ winning
             total_profit == SumProfit(log, winning)
             total_loss == SumProfit(log, losing)
         IN  [total_return |-> total_return,
              annual_return |-> annual,
              volatility |-> vol,
              sharpe_ratio |-> sharpe_ratio(annual, vol),
              max_drawdown |-> max_drawdown(curve),
              win_rate |-> IF Len(log) > 0 THEN Ratio(Cardinality(winning), Len(log))
                           ELSE Zero,
              profit_factor |-> IF total_loss > 0 THEN Ratio(total_profit, total_loss)
                                ELSE Inf,
              total_trades |-> Len(log),
              winning_trades |-> Cardinality(winning),
              losing_trades |-> Cardinality(losing),
              final_equity |-> curve[Len(curve)][2],
              trade_log |-> log]

----------------------------------------------------------------------------
(* The simulate variant: SimulationEngine *)

\* the literals of SimulationEngine.execute_trade: cost * 0.0003, at least 5
\* yuan, and revenue * 0.001; run_simulation skips a slice of fewer than 50 bars
SIM_COMMISSION_RATE_E4 == 3
SIM_MIN_COMMISSION == 5
SIM_TAX_RATE_E3 == 1
SIM_WARMUP_BARS == 50

\* SimulationAccount(cash=initial_capital, positions={}, ...)
SimulationAccount(capital) ==
    [cash |-> capital, positions |-> NoPositions, position_values |-> NoPositions,
     total_value |-> capital, trade_log |-> << >>, initial_capital |-> capital]

\* max(cost * 0.0003, 5)
SimCommission(cost) ==
    Max((cost * SIM_COMMISSION_RATE_E4) \div 10000, Yuan(SIM_MIN_COMMISSION))

\* the record SimulationEngine.execute_trade appends (the timestamp is the wall
\* clock of the call, which no code reads back)
SimTradeRecord(acct, signal, current_price, commission) ==
    [timestamp |-> "now", symbol |-> signal.symbol, action |-> signal.action,
     price |-> current_price, quantity |-> signal.volume, commission |-> commission,
     reason |-> signal.reason, account_value |-> acct.total_value]

\* SimulationEngine.execute_trade(signal, current_price): whether it returned
\* True, and the account it leaves
sim_execute_trade(acct, signal, current_price) ==
    LET symbol == signal.symbol
        quantity == signal.volume
        cost == Amount(quantity, current_price)
        commission == SimCommission(cost)
    IN  IF signal.action = "BUY"
        THEN IF cost + commission > acct.cash
             THEN [ok |-> "False", account |-> acct]
             ELSE LET bought ==
                          [acct EXCEPT
                             !.positions =
                                 DictSet(acct.positions, symbol,
                                         IF symbol \in DOMAIN acct.positions
                                         THEN acct.positions[symbol] + quantity
                                         ELSE quantity),
                             !.cash = acct.cash - (cost + commission)]
                  IN  [ok |-> "True",
                       account |->
                           [bought EXCEPT
                              !.trade_log =
                                  Append(acct.trade_log,
                                         SimTradeRecord(bought, signal, current_price,
                                                        commission))]]
        ELSE IF signal.action = "SELL"
        THEN IF symbol \notin DOMAIN acct.positions \/ acct.positions[symbol] < quantity
             THEN [ok |-> "False", account |-> acct]
             ELSE LET revenue == Amount(quantity, current_price)
                      tax == (revenue * SIM_TAX_RATE_E3) \div 1000
                      total_revenue == revenue - commission - tax
                      left == acct.positions[symbol] - quantity
                      sold ==
                          [acct EXCEPT
                             !.positions =
                                 IF left = 0 THEN DictDel(acct.positions, symbol)
                                 ELSE DictSet(acct.positions, symbol, left),
                             !.cash = acct.cash + total_revenue]
                  IN  [ok |-> "True",
                       account |->
                           [sold EXCEPT
                              !.trade_log =
                                  Append(acct.trade_log,
                                         SimTradeRecord(sold, signal, current_price,
                                                        commission))]]
        ELSE [ok |-> "True",
              account |->
                  [acct EXCEPT
                     !.trade_log =
                         Append(acct.trade_log,
                                SimTradeRecord(acct, signal, current_price, commission))]]

\* the sum of the values v[s] over the symbols S
RECURSIVE SumValues(_, _)
SumValues(S, v) ==
    IF S = {} THEN 0
    ELSE LET s == CHOOSE y \in S : TRUE
         IN  v[s] + SumValues(S \ {s}, v)

\* update_account_value: every held symbol with a table is valued at the close
\* of the table's last row
update_account_value(acct, market_data) ==
    LET valued == { s \in DOMAIN acct.positions :
                      s \in DOMAIN market_data /\ market_data[s] # << >> }
        position_values ==
            [s \in valued |->
                Amount(acct.positions[s], market_data[s][Len(market_data[s])].close)]
    IN  [acct EXCEPT !.position_values = position_values,
                     !.total_value = acct.cash + SumValues(valued, position_values)]

\* all_market_data = data_handler.get_market_data(symbols, start, end): the rows
\* of the window for every listed symbol that has any
SimMarketData(args) ==
    LET market_data == MarketData(args.market_data)
        listed == { args.symbols[i] : i \in 1..Len(args.symbols) } \cap DOMAIN market_data
        window(table) ==
            SelectSeq(table, LAMBDA b : /\ to_datetime(args.start_date) <= b.date
                                        /\ b.date <= to_datetime(args.end_date))
    IN  [s \in { t \in listed : window(market_data[t]) # << >> } |->
            window(market_data[s])]

\* all_dates of run_simulation: every date of the fetched tables, sorted
SimAllDates(args) ==
    LET market_data == SimMarketData(args)
    IN  SortedSeq(UNION { { market_data[s][k].date : k \in 1..Len(market_data[s]) } :
                          s \in DOMAIN market_data })

\* "for signal in signals" of run_simulation: a signal of the current date is
\* sized on the account's total value and executed at the date's close
RECURSIVE SimSubmitSignals(_, _, _, _)
SimSubmitSignals(acct, signals, table, current_date) ==
    IF signals = << >> THEN acct
    ELSE LET signal == Head(signals)
             current_data == SelectSeq(table, LAMBDA b : b.date = current_date)
         IN  IF signal.date # strftime(current_date) \/ current_data = << >>
             THEN SimSubmitSignals(acct, Tail(signals), table, current_date)
             ELSE LET current_price == current_data[1].close
                      adjusted_volume ==
                          calculate_position_size(current_price, acct.total_value)
                      sized == [signal EXCEPT
                                  !.volume = Min(signal.volume, adjusted_volume)]
                  IN  SimSubmitSignals(
                          sim_execute_trade(acct, sized, current_price).account,
                          Tail(signals), table, current_date)

\* the body of run_simulation's symbol loop for one symbol on one date
SimProcessSymbol(acct, symbol, market_data, current_date) ==
    IF symbol \notin DOMAIN market_data THEN acct
    ELSE LET stock_data == SelectSeq(market_data[symbol], LAMBDA b : b.date <= current_date)
         IN  IF Len(stock_data) < SIM_WARMUP_BARS THEN acct
             ELSE SimSubmitSignals(
                      acct,
                      generate_signals(calculate_technical_indicators(stock_data), symbol),
                      market_data[symbol], current_date)

\* a date loop that never looks at the stop flag
GoesOnUnchecked(running, i, dates) == i <= Len(dates)

\* "for current_date in all_dates: if not self.is_running: break": whether the
\* loop enters the iteration of dates[i]
GoesOn(running, i, dates) == i <= Len(dates) /\ running

\* run_simulation not called, or returned
SimIdle == [pc |-> "idle", args |-> Unset, all_dates |-> << >>, date_i |-> 0,
            symbol_i |-> 0, runs |-> 0]

\* a new SimulationEngine(initial_capital)
InitSimulation ==
    /\ account = SimulationAccount(initial_capital)
    /\ is_running = FALSE
    /\ sim_run = SimIdle
    /\ sim_ret = Returned("init", "none", "none")

----------------------------------------------------------------------------
(* The data handler's rate limiter *)

\* self.min_request_interval = 0.5, in tenths of a second
MIN_REQUEST_INTERVAL == 5

\* the threads that fetch: two of the pool of get_market_data
Workers == {1, 2}

\* a new DataHandler: last_request_time = 0, the clock anywhere past the
\* interval (time.time() counts from 1970), no thread in get_daily_data
InitHandler ==
    /\ now = MIN_REQUEST_INTERVAL
    /\ last_request_time = 0
    /\ workers = [w \in Workers |-> [pc |-> "idle", wake |-> 0]]
    /\ requests = << >>

----------------------------------------------------------------------------
(* The data handler's two-level cache and its fetches *)

\* the frames the data source answers with; an empty DataFrame; Python's None
Frames == {"df1", "df2"}
EmptyFrame == "empty"
None == "None"

\* a cache file that pd.read_pickle cannot read
Corrupt == "corrupt"

\* how df.to_pickle(cache_file) ends: the file written, the call failing before
\* it touches the file, or the call failing with the file left unreadable
DiskOutcomes == {"written", "failed", "partial"}

\* hashlib.md5(f"{symbol}_{start_date}_{end_date}".encode()).hexdigest(): the
\* formatted string, the digest taken as one-to-one
_get_cache_key(symbol, start_date, end_date) ==
    symbol \o "_" \o ToString(start_date) \o "_" \o ToString(end_date)

\* a load that leaves the in-memory level as it was after reading a file
_load_from_cache_no_fill(cache, files, cache_key) ==
    IF cache_key \in DOMAIN cache
    THEN [value |-> cache[cache_key], data_cache |-> cache, level |-> "memory"]
    ELSE IF cache_key \in DOMAIN files /\ files[cache_key] # Corrupt
         THEN [value |-> files[cache_key], data_cache |-> cache, level |-> "file"]
         ELSE [value |-> None, data_cache |-> cache, level |-> "none"]

\* _load_from_cache, given the key: the value returned, the in-memory level
\* afterwards, and the level that answered
_load_from_cache(cache, files, cache_key) ==
    IF cache_key \in DOMAIN cache
    THEN [value |-> cache[cache_key], data_cache |-> cache, level |-> "memory"]
    ELSE IF cache_key \in DOMAIN files
         THEN IF files[cache_key] # Corrupt
              THEN [value |-> files[cache_key],
                    data_cache |-> DictSet(cache, cache_key, files[cache_key]),
                    level |-> "file"]
              ELSE [value |-> None, data_cache |-> cache, level |-> "unreadable"]
         ELSE [value |-> None, data_cache |-> cache, level |-> "none"]

\* _save_to_cache, given the key: both levels afterwards; a failure of
\* to_pickle is printed and swallowed
_save_to_cache(cache, files, cache_key, df, disk) ==
    [data_cache  |-> DictSet(cache, cache_key, df),
     cache_files |-> IF disk = "written" THEN DictSet(files, cache_key, df)
                     ELSE IF disk = "partial" THEN DictSet(files, cache_key, Corrupt)
                     ELSE files]

\* the trading calendar the data source answers with, as day numbers
TradingDays == {1, 2}

\* get_trading_dates(start_date, end_date): the rows of the index "sh.000001"
get_trading_dates(start_date, end_date) ==
    { d \in TradingDays : start_date <= d /\ d <= end_date }

\* get_previous_trading_date(date_str): the latest trading date of the 365 days
\* up to the date, or the date itself when there is none
get_previous_trading_date(date_str) ==
    LET trading_dates == get_trading_dates(date_str - 365, date_str)
    IN  IF trading_dates = {} THEN date_str
        ELSE CHOOSE d \in trading_dates : \A e \in trading_dates : e <= d

\* _enforce_rate_limit() on one thread: the time at which it returns
_enforce_rate_limit(current_time, last) ==
    LET time_since_last_request == current_time - last
    IN  IF time_since_last_request < MIN_REQUEST_INTERVAL
        THEN current_time + (MIN_REQUEST_INTERVAL - time_since_last_request)
        ELSE current_time

\* what bs.query_history_k_data_plus does for a symbol: rows of a frame, rows
\* that are all NaN once converted, no rows, or an exception
Answers == {"df1", "nan_rows", "no_rows", "error"}

\* the frame get_daily_data makes of the rows: to_numeric, dropna, sort_values
Cleaned(answer) == IF answer \in Frames THEN answer ELSE EmptyFrame

\* one call as a mock of the data source or of a method of the handler records it
Call(fn, arg) == [fn |-> fn, arg |-> arg]

\* the two calendar queries of get_daily_data: get_previous_trading_date of the
\* start date and of the end date, each through get_trading_dates
CalendarCalls ==
    << Call("query_history_k_data_plus", "sh.000001"),
       Call("query_history_k_data_plus", "sh.000001") >>

\* get_daily_data's lookup: self._load_from_cache(symbol, adjusted_start_date,
\* adjusted_end_date)
Lookup(cache, files, cache_key) == _load_from_cache(cache, files, cache_key)

\* get_daily_data(symbol, start_date, end_date) on one thread at time
\* current_time, the data source answering `answer`: the frame returned, both
\* cache levels, the clock and the calls made
get_daily_data(cache, files, current_time, last, symbol, start_date, end_date, answer, disk) ==
    LET adjusted_start_date == get_previous_trading_date(start_date)
        adjusted_end_date == get_previous_trading_date(end_date)
        cache_key == _get_cache_key(symbol, adjusted_start_date, adjusted_end_date)
        cached_data == Lookup(cache, files, cache_key)
        sent == _enforce_rate_limit(current_time, last)
        df == Cleaned(answer)
        saved == _save_to_cache(cached_data.data_cache, files, cache_key, df, disk)
        asked == CalendarCalls \o << Call("_enforce_rate_limit", "none"),
                                     Call("query_history_k_data_plus", symbol) >>
    IN  IF cached_data.value # None
        THEN [value |-> cached_data.value, hit |-> TRUE, key |-> cache_key,
              data_cache |-> cached_data.data_cache, cache_files |-> files,
              now |-> current_time, last_request_time |-> last,
              calls |-> CalendarCalls]
        ELSE IF answer \in {"no_rows", "error"}
        THEN [value |-> EmptyFrame, hit |-> FALSE, key |-> cache_key,
              data_cache |-> cached_data.data_cache, cache_files |-> files,
              now |-> sent, last_request_time |-> sent,
              calls |-> asked]
        ELSE [value |-> df, hit |-> FALSE, key |-> cache_key,
              data_cache |-> saved.data_cache, cache_files |-> saved.cache_files,
              now |-> sent, last_request_time |-> sent,
              calls |-> Append(asked, Call("_save_to_cache", cache_key))]

\* get_market_data not called, or returned
MarketIdle == [pc |-> "idle", symbols |-> << >>, futures |-> << >>,
               market_data |-> [s \in {} |-> EmptyFrame], runs |-> 0]

\* a new DataHandler over an empty cache directory
InitCache ==
    /\ data_cache = [k \in {} |-> EmptyFrame]
    /\ cache_files = [k \in {} |-> EmptyFrame]
    /\ handler_ret = [op |-> "init"]
    /\ calls = << >>
    /\ market = MarketIdle

----------------------------------------------------------------------------
(* The live variant: LiveTradingEngine *)

\* LiveAccount(cash, positions, ...)
LiveAccount(capital) ==
    [cash |-> capital, positions |-> [s \in {} |-> 0], initial_capital |-> capital]

LIVE_COMMISSION_RATE_E4 == 3   \* max(cost * 0.0003, 5)
LIVE_MIN_COMMISSION == 5
LIVE_TAX_RATE_E3 == 1          \* tax = revenue * 0.001

\* max(cost * 0.0003, 5)
LiveCommission(cost) ==
    Max((cost * LIVE_COMMISSION_RATE_E4) \div 10000, Yuan(LIVE_MIN_COMMISSION))

\* Order(order_id, symbol, action, quantity, price=0, status='PENDING', ...) as
\* place_order builds it (the timestamp is the wall clock, which no code reads)
Order(order_id, signal) ==
    [order_id |-> order_id, symbol |-> signal.symbol, action |-> signal.action,
     quantity |-> signal.volume, price |-> 0, status |-> "PENDING",
     reason |-> signal.reason]

\* a list without its i-th element: list.pop(i)
Pop(list, i) == SubSeq(list, 1, i - 1) \o SubSeq(list, i + 1, Len(list))

\* a list without an object: list.remove(order)
Remove(list, o) == SelectSeq(list, LAMBDA x : x # o)

\* the engine's lists and account, the Order objects held by number
LiveState(acct, ords, pending, history) ==
    [account |-> acct, orders |-> ords, pending_orders |-> pending,
     order_history |-> history]

\* place_order(signal), the clock and the random number giving order_id
place_order(state, signal, order_id) ==
    [state EXCEPT
       !.orders = Append(state.orders, Order(order_id, signal)),
       !.pending_orders = Append(state.pending_orders, Len(state.orders) + 1)]

\* the places of pending_orders whose order has the id
PendingWithId(state, order_id) ==
    { i \in 1..Len(state.pending_orders) :
        state.orders[state.pending_orders[i]].order_id = order_id }

\* a cancel_order that marks the order and leaves it in the list
cancel_order_kept(state, order_id) ==
    LET found == PendingWithId(state, order_id)
    IN  IF found = {} THEN [value |-> FALSE, state |-> state]
        ELSE LET i == CHOOSE i \in found : \A j \in found : i <= j
                 o == state.pending_orders[i]
             IN  [value |-> TRUE,
                  state |-> [state EXCEPT !.orders[o].status = "CANCELLED"]]

\* cancel_order(order_id): the first pending order with the id is marked
\* CANCELLED and popped
cancel_order(state, order_id) ==
    LET found == PendingWithId(state, order_id)
    IN  IF found = {} THEN [value |-> FALSE, state |-> state]
        ELSE LET i == CHOOSE i \in found : \A j \in found : i <= j
                 o == state.pending_orders[i]
             IN  [value |-> TRUE,
                  state |-> [state EXCEPT
                               !.orders[o].status = "CANCELLED",
                               !.pending_orders = Pop(state.pending_orders, i)]]

\* the body of check_orders' loop for an order that the draw lets fill at
\* current_price
FillOrder(state, o, current_price) ==
    LET order == state.orders[o]
        acct == state.account
        cost == Amount(order.quantity, current_price)
        commission == LiveCommission(cost)
        tax == (cost * LIVE_TAX_RATE_E3) \div 1000
        rejected == [state EXCEPT !.orders[o].status = "REJECTED"]
        filled(new_account) ==
            [state EXCEPT
               !.account = new_account,
               !.orders[o].status = "FILLED",
               !.orders[o].price = current_price,
               !.order_history = Append(state.order_history, o),
               !.pending_orders = Remove(state.pending_orders, o)]
    IN  IF order.action = "BUY"
        THEN IF cost + commission <= acct.cash
             THEN filled([acct EXCEPT
                            !.cash = acct.cash - (cost + commission),
                            !.positions =
                                DictSet(acct.positions, order.symbol,
                                        IF order.symbol \in DOMAIN acct.positions
                                        THEN acct.positions[order.symbol] + order.quantity
                                        ELSE order.quantity)])
             ELSE rejected
        ELSE IF order.action = "SELL"
        THEN IF order.symbol \in DOMAIN acct.positions
                /\ acct.positions[order.symbol] >= order.quantity
             THEN LET left == acct.positions[order.symbol] - order.quantity
                  IN  filled([acct EXCEPT
                                !.cash = acct.cash + (cost - commission - tax),
                                !.positions =
                                    IF left = 0 THEN DictDel(acct.positions, order.symbol)
                                    ELSE DictSet(acct.positions, order.symbol, left)])
             ELSE rejected
        ELSE filled(acct)

\* np.random.random() > 0.1 is false: the order is not filled in this round
NoFill == 0

\* check_orders(): "for order in self.pending_orders[:]" over the copy
\* `snapshot`, draws[k] telling whether np.random.random() lets the k-th
\* order fill (NoFill if not) and at which price; draws past the end of the
\* copy are not made
RECURSIVE check_orders(_, _, _)
check_orders(state, snapshot, draws) ==
    IF snapshot = << >> THEN state
    ELSE check_orders(IF Head(draws) = NoFill THEN state
                      ELSE FillOrder(state, Head(snapshot), Head(draws)),
                      Tail(snapshot), Tail(draws))

\* a new LiveTradingEngine(initial_capital), real trading enabled in the
\* configuration
InitLive ==
    /\ live_account = LiveAccount(initial_capital)
    /\ orders = << >>
    /\ pending_orders = << >>
    /\ order_history = << >>
    /\ live_ret = [op |-> "init"]

----------------------------------------------------------------------------
(* Operations of the engine *)

Init ==
    /\ initial_capital \in InitialCapitals
    /\ current_capital = initial_capital
    /\ positions = NoPositions
    /\ trade_log = << >>
    /\ equity_curve = << >>
    /\ ret = Returned("init", "none", "none")
    /\ pc = "idle"
    /\ run_args = Unset
    /\ all_dates = << >>
    /\ date_i = 0
    /\ symbol_i = 0
    /\ daily_trades = 0
    /\ result = Unset
    /\ prev_run = Unset
    /\ runs = 0
    /\ result_shares_log = FALSE
    /\ InitSimulation
    /\ InitHandler
    /\ InitCache
    /\ InitLive

\* the result last returned as its holder sees it once self.trade_log is `log`:
\* trade_log=self.trade_log hands out the list itself, so a record appended to
\* that list shows in the result, until self.trade_log is bound to a new list
ResultSeeing(log) ==
    IF result_shares_log THEN [result EXCEPT !.trade_log = log] ELSE result

\* a direct call engine.execute_trade(signal, market_data)
ExecuteTrade(signal, market_data) ==
    /\ pc = "idle"
    /\ Len(trade_log) < MaxLog
    /\ LET r == execute_trade(current_capital, positions, trade_log, signal, market_data)
       IN  /\ current_capital' = r.cash
           /\ positions' = r.positions
           /\ trade_log' = r.log
           /\ ret' = Returned("execute_trade", r.ok, r.debug)
           /\ result' = ResultSeeing(r.log)
    /\ UNCHANGED <<initial_capital, equity_curve>>
    /\ UNCHANGED <<pc, run_args, all_dates, date_i, symbol_i, daily_trades, prev_run, runs,
                   result_shares_log>>
    /\ UNCHANGED outside_backtest

\* a direct call engine.reset()
Reset ==
    /\ pc = "idle"
    /\ LET r == reset(initial_capital)
       IN  /\ current_capital' = r.cash
           /\ positions' = r.positions
           /\ trade_log' = r.log
           /\ equity_curve' = r.curve
    /\ ret' = Returned("reset", "none", "none")
    /\ result_shares_log' = FALSE
    /\ UNCHANGED initial_capital
    /\ UNCHANGED run_vars
    /\ UNCHANGED outside_backtest

\* engine.run_backtest(symbols, market_data, start_date, end_date), up to the
\* date loop: reset() and all_dates
RunStart(args) ==
    /\ pc = "idle"
    /\ runs < MaxRuns
    /\ LET r == reset(initial_capital)
       IN  /\ current_capital' = r.cash
           /\ positions' = r.positions
           /\ trade_log' = r.log
           /\ equity_curve' = r.curve
    /\ run_args' = args
    /\ all_dates' = AllDates(args)
    /\ date_i' = 1
    /\ symbol_i' = 1
    /\ daily_trades' = 0
    /\ pc' = "loop"
    /\ runs' = runs + 1
    /\ ret' = Returned("run_backtest", "none", "none")
    /\ result_shares_log' = FALSE
    /\ UNCHANGED <<initial_capital, result, prev_run>>
    /\ UNCHANGED outside_backtest

\* one iteration of "for symbol in symbols"
SymbolStep ==
    /\ pc = "loop"
    /\ date_i <= Len(all_dates)
    /\ symbol_i <= Len(run_args.symbols)
    /\ LET state == ProcessSymbol(
                        [cash |-> current_capital, positions |-> positions,
                         log |-> trade_log, trades |-> daily_trades,
                         ret |-> Returned("run_backtest", "none", "none")],
                        SymbolAt(run_args.symbols, symbol_i),
                        MarketData(run_args.market_data), all_dates[date_i])
       IN  /\ current_capital' = state.cash
           /\ positions' = state.positions
           /\ trade_log' = state.log
           /\ daily_trades' = state.trades
           /\ ret' = state.ret
           /\ result' = ResultSeeing(state.log)
    /\ symbol_i' = symbol_i + 1
    /\ UNCHANGED <<initial_capital, equity_curve, pc, run_args, all_dates, date_i,
                   prev_run, runs, result_shares_log>>
    /\ UNCHANGED outside_backtest

\* the end of one iteration of "for current_date in all_dates": the equity point
DateEnd ==
    /\ pc = "loop"
    /\ date_i <= Len(all_dates)
    /\ symbol_i > Len(run_args.symbols)
    /\ equity_curve' =
          Append(equity_curve,
                 << strftime(all_dates[date_i]),
                    calculate_equity(current_capital, positions,
                                     MarketData(run_args.market_data),
                                     strftime(all_dates[date_i])) >>)
    /\ date_i' = date_i + 1
    /\ symbol_i' = 1
    /\ daily_trades' = 0
    /\ ret' = Returned("run_backtest", "none", "none")
    /\ UNCHANGED <<initial_capital, current_capital, positions, trade_log, pc, run_args,
                   all_dates, result, prev_run, runs, result_shares_log>>
    /\ UNCHANGED outside_backtest

\* the date loop is over: run_backtest returns calculate_backtest_metrics()
RunFinish ==
    /\ pc = "loop"
    /\ date_i > Len(all_dates)
    /\ result' = calculate_backtest_metrics(equity_curve, trade_log, initial_capital)
    /\ result_shares_log' = (equity_curve # << >>)
    /\ prev_run' = [args |-> run_args, curve |-> equity_curve, log |-> trade_log,
                     result |-> result']
    /\ pc' = "idle"
    /\ ret' = Returned("run_backtest", "result", "none")
    /\ UNCHANGED <<initial_capital, current_capital, positions, trade_log, equity_curve,
                   run_args, all_dates, date_i, symbol_i, daily_trades, runs>>
    /\ UNCHANGED outside_backtest

\* a direct call engine.calculate_backtest_metrics()
CalculateMetrics ==
    /\ pc = "idle"
    /\ result' = calculate_backtest_metrics(equity_curve, trade_log, initial_capital)
    /\ result_shares_log' = (equity_curve # << >>)
    /\ ret' = Returned("calculate_backtest_metrics", "result", "none")
    /\ UNCHANGED <<initial_capital, current_capital, positions, trade_log, equity_curve,
                   pc, run_args, all_dates, date_i, symbol_i, daily_trades, prev_run,
                   runs>>
    /\ UNCHANGED outside_backtest

\* a direct call strategy.calculate_position_size(price, account_balance)
CalculatePositionSize(price, account_balance) ==
    /\ ret' = [op |-> "calculate_position_size", ok |-> "result", debug |-> "none",
               price |-> price, account_balance |-> account_balance,
               value |-> calculate_position_size(price, account_balance)]
    /\ UNCHANGED <<initial_capital, current_capital, positions, trade_log, equity_curve>>
    /\ UNCHANGED run_vars
    /\ UNCHANGED result_shares_log
    /\ UNCHANGED outside_backtest

\* the ledger driven directly
Next ==
    \/ \E signal \in DirectSignals, market_data \in DirectMarketData :
          ExecuteTrade(signal, market_data)
    \/ Reset

Spec == Init /\ [][Next]_vars

\* the scheduler, with direct calls between the runs
NextRun ==
    \/ \E args \in RunArgs : RunStart(args)
    \/ SymbolStep
    \/ DateEnd
    \/ RunFinish
    \/ \E signal \in ScenarioSignals : ExecuteTrade(signal, TestQuotes)
    \/ Reset
    \/ CalculateMetrics

SpecRun == Init /\ [][NextRun]_vars

\* runs over market data that are the same up to a day and differ after it: X
\* has another bar on day 52, or one more bar on day 53
CausalArgs ==
    { Args(<< "X", "Y" >>, "usc_usc", 49, 53),
      Args(<< "X", "Y" >>, "usf_usc", 49, 53),
      Args(<< "X", "Y" >>, "uscf_usc", 49, 53) }

\* one run after another
NextCausal ==
    \/ \E args \in CausalArgs : RunStart(args)
    \/ SymbolStep
    \/ DateEnd
    \/ RunFinish

SpecCausal == Init /\ [][NextCausal]_vars

\* the control of run_backtest: where the two loops stand
loop_vars == <<pc, date_i, symbol_i>>

\* SymbolStep, DateEnd and RunFinish as they move the control: "for symbol in
\* symbols" takes the next symbol, "for current_date in all_dates" the next date,
\* and after the last date the call returns
SymbolAdvance ==
    /\ pc = "loop"
    /\ date_i <= Len(all_dates)
    /\ symbol_i <= Len(run_args.symbols)
    /\ symbol_i' = symbol_i + 1
    /\ UNCHANGED <<pc, date_i>>

DateAdvance ==
    /\ pc = "loop"
    /\ date_i <= Len(all_dates)
    /\ symbol_i > Len(run_args.symbols)
    /\ date_i' = date_i + 1
    /\ symbol_i' = 1
    /\ UNCHANGED pc

ReturnAdvance ==
    /\ pc = "loop"
    /\ date_i > Len(all_dates)
    /\ pc' = "idle"
    /\ UNCHANGED <<date_i, symbol_i>>

\* run_backtest is sequential code: once called, its loops run to their end.
\* The fairness is stated on the control, which every step of the loops moves.
SpecRunFair ==
    /\ SpecRun
    /\ WF_loop_vars(SymbolAdvance)
    /\ WF_loop_vars(DateAdvance)
    /\ WF_loop_vars(ReturnAdvance)

\* the strategy's position sizing called on its own
NextSize ==
    \E price \in SizePrices, account_balance \in SizeBalances :
       CalculatePositionSize(price, account_balance)

SpecSize == Init /\ [][NextSize]_vars

\* the slices generate_signals is called on directly: the first bars of each
\* table, from a single bar up to the whole table
SliceLengths == {1, 2, 21, 30, 31, 32, 49, 50, 51, 52, 53}

Slices ==
    UNION { { SubSeq(table, 1, n) : n \in { m \in SliceLengths : m <= Len(table) } } :
            table \in {TableUSC, TableFUF, TableUFU, TableFFF, TableFSC, TableShort,
                        TableCheap} }

\* how many times in a row generate_signals is called on one slice
MaxCalls == 2

\* signals = strategy.generate_signals(df, symbol), called on its own: it reads
\* df and self.params and builds a new list of new TradeSignal objects
GenerateSignals(df, symbol) ==
    /\ pc = "idle"
    /\ IF ret.op = "generate_signals"
       THEN ret.calls < MaxCalls /\ ret.symbol = symbol /\ ret.df = df
       ELSE TRUE
    /\ ret' = [op |-> "generate_signals", ok |-> "result", debug |-> "none",
               df |-> df, symbol |-> symbol,
               calls |-> IF ret.op = "generate_signals" THEN ret.calls + 1 ELSE 1,
               value |-> generate_signals(df, symbol)]
    /\ UNCHANGED <<initial_capital, current_capital, positions, trade_log, equity_curve>>
    /\ UNCHANGED run_vars
    /\ UNCHANGED result_shares_log
    /\ UNCHANGED outside_backtest

\* the strategy's signal generator called on its own, on a new ledger or after
\* one direct trade
NextSignals ==
    \/ \E df \in Slices, symbol \in Symbols : GenerateSignals(df, symbol)
    \/ /\ ret.op = "init"
       /\ \E signal \in DirectSignals : ExecuteTrade(signal, TestQuotes)

SpecSignals == Init /\ [][NextSignals]_vars

\* the equity curves calculate_backtest_metrics is called on directly: up to
\* MaxCurve daily points from day 1 on, each at one of four levels
MaxCurve == 4
CurveLevels == {Yuan(90), Yuan(100), Yuan(110), Yuan(120)}

TestCurves ==
    UNION { [1..n -> CurveLevels] : n \in 1..MaxCurve }

\* an engine whose equity curve holds one of the curves and whose trade log
\* is empty
InitCurve ==
    /\ initial_capital \in InitialCapitals
    /\ current_capital = initial_capital
    /\ positions = NoPositions
    /\ trade_log = << >>
    /\ \E levels \in TestCurves :
          equity_curve = [i \in 1..Len(levels) |-> << i, levels[i] >>]
    /\ ret = Returned("init", "none", "none")
    /\ pc = "idle"
    /\ run_args = Unset
    /\ all_dates = << >>
    /\ date_i = 0
    /\ symbol_i = 0
    /\ daily_trades = 0
    /\ result = Unset
    /\ prev_run = Unset
    /\ runs = 0
    /\ result_shares_log = FALSE
    /\ InitSimulation
    /\ InitHandler
    /\ InitCache
    /\ InitLive

\* the metrics computed over a given curve
NextCurve == CalculateMetrics

SpecCurve == InitCurve /\ [][NextCurve]_vars

\* the signals the trade statistics are exercised with: both symbols, bought
\* and sold on either date at 10.00, 11.00, 12.00 and 100.00
LogSignals ==
    { TradeSignal(o[1], s, a, o[2], o[3], "Test signal", 800) :
        s \in Symbols, a \in {"BUY", "SELL"},
        o \in { <<D1, 1000, 1000>>, <<D1, 1100, 1000>>, <<D2, 1200, 1000>>,
                <<D1, 10000, 600>> } }

\* an engine whose equity curve holds one point, the initial capital on D1
InitLog ==
    /\ initial_capital \in InitialCapitals
    /\ current_capital = initial_capital
    /\ positions = NoPositions
    /\ trade_log = << >>
    /\ equity_curve = << << D1, initial_capital >> >>
    /\ ret = Returned("init", "none", "none")
    /\ pc = "idle"
    /\ run_args = Unset
    /\ all_dates = << >>
    /\ date_i = 0
    /\ symbol_i = 0
    /\ daily_trades = 0
    /\ result = Unset
    /\ prev_run = Unset
    /\ runs = 0
    /\ result_shares_log = FALSE
    /\ InitSimulation
    /\ InitHandler
    /\ InitCache
    /\ InitLive

\* direct trades, and the metrics computed over the log they leave
NextLog ==
    \/ \E signal \in LogSignals : ExecuteTrade(signal, TestQuotes)
    \/ CalculateMetrics

SpecLog == InitLog /\ [][NextLog]_vars

\* signals whose action is HOLD, the third action of TradeSignal
HoldSignals ==
    { TradeSignal(o[1], s, "HOLD", o[2], o[3], "Test signal", 800) :
        s \in Symbols, o \in {<<D1, 1000, 1000>>, <<D2, 1200, 1000>>} }

\* BUY, SELL and HOLD signals submitted to the ledger
NextHold ==
    \/ \E signal \in LogSignals : ExecuteTrade(signal, TestQuotes)
    \/ \E signal \in HoldSignals : ExecuteTrade(signal, TestQuotes)

SpecHold == Init /\ [][NextHold]_vars

----------------------------------------------------------------------------
(* Operations of the simulate variant *)

\* one signal handed to both engines: engine.execute_trade(signal, market_data)
\* and simulation_engine.execute_trade(signal, signal.price)
ExecuteTradeBoth(signal) ==
    /\ pc = "idle"
    /\ sim_run.pc = "idle"
    /\ Len(trade_log) < MaxLog
    /\ Len(account.trade_log) < MaxLog
    /\ LET r == execute_trade(current_capital, positions, trade_log, signal, TestQuotes)
       IN  /\ current_capital' = r.cash
           /\ positions' = r.positions
           /\ trade_log' = r.log
           /\ ret' = Returned("execute_trade", r.ok, r.debug)
           /\ result' = ResultSeeing(r.log)
    /\ LET r == sim_execute_trade(account, signal, signal.price)
       IN  /\ account' = r.account
           /\ sim_ret' = Returned("execute_trade", r.ok, "none")
    /\ UNCHANGED <<initial_capital, equity_curve>>
    /\ UNCHANGED <<pc, run_args, all_dates, date_i, symbol_i, daily_trades, prev_run, runs,
                   result_shares_log>>
    /\ UNCHANGED <<is_running, sim_run>>
    /\ UNCHANGED outside_sim

\* the two engines fed the same signals
NextBoth == \E signal \in DirectSignals : ExecuteTradeBoth(signal)

SpecBoth == Init /\ [][NextBoth]_vars

\* the quantities and prices PaperTradingAPI.buy and sell are called with
PaperQuantities == {-100, 0, 100}
PaperPrices == {1000}

\* PaperTradingAPI.buy / sell (symbol, quantity, price): the signal it builds
PaperSignal(action, symbol, quantity, price) ==
    TradeSignal(D1, symbol, action, price, quantity, "", 800)

\* PaperTradingAPI.buy(symbol, quantity, price)
PaperBuy(symbol, quantity, price) ==
    /\ sim_run.pc = "idle"
    /\ Len(account.trade_log) < MaxLog
    /\ LET r == sim_execute_trade(account, PaperSignal("BUY", symbol, quantity, price),
                                  price)
       IN  /\ account' = r.account
           /\ sim_ret' = Returned("buy", r.ok, "none")
    /\ UNCHANGED <<is_running, sim_run>>
    /\ UNCHANGED outside_sim
    /\ UNCHANGED backtest_vars

\* PaperTradingAPI.sell(symbol, quantity, price)
PaperSell(symbol, quantity, price) ==
    /\ sim_run.pc = "idle"
    /\ Len(account.trade_log) < MaxLog
    /\ LET r == sim_execute_trade(account, PaperSignal("SELL", symbol, quantity, price),
                                  price)
       IN  /\ account' = r.account
           /\ sim_ret' = Returned("sell", r.ok, "none")
    /\ UNCHANGED <<is_running, sim_run>>
    /\ UNCHANGED outside_sim
    /\ UNCHANGED backtest_vars

NextPaper ==
    \/ \E symbol \in Symbols, quantity \in PaperQuantities, price \in PaperPrices :
          PaperBuy(symbol, quantity, price)
    \/ \E symbol \in Symbols, quantity \in PaperQuantities, price \in PaperPrices :
          PaperSell(symbol, quantity, price)

SpecPaper == Init /\ [][NextPaper]_vars

\* the calls run_simulation(symbols, data_handler, start_date, end_date) made
SimArgs ==
    { Args(<< "X", "Y" >>, "usc_usc", 1, 52),
      Args(<< "X", "Y" >>, "usc_usc", 1, 50),
      Args(<< "X", "Y" >>, "ufu_short", 1, 53) }

\* how many times run_simulation is called
MaxSimRuns == 1

\* run_simulation up to its date loop: the flag is set, the tables are fetched
RunSimulation(args) ==
    /\ sim_run.pc = "idle"
    /\ sim_run.runs < MaxSimRuns
    /\ is_running' = TRUE
    /\ sim_run' = [pc |-> "check", args |-> args, all_dates |-> SimAllDates(args),
                   date_i |-> 1, symbol_i |-> 1, runs |-> sim_run.runs + 1]
    /\ sim_ret' = Returned("run_simulation", "none", "none")
    /\ UNCHANGED account
    /\ UNCHANGED outside_sim
    /\ UNCHANGED backtest_vars

\* the head of one iteration of the date loop: the flag is up
SimDateBegin ==
    /\ sim_run.pc = "check"
    /\ GoesOn(is_running, sim_run.date_i, sim_run.all_dates)
    /\ sim_run' = [sim_run EXCEPT !.pc = "symbols", !.symbol_i = 1]
    /\ UNCHANGED <<account, is_running, sim_ret>>
    /\ UNCHANGED outside_sim
    /\ UNCHANGED backtest_vars

\* one iteration of "for symbol in symbols"
SimSymbolStep ==
    /\ sim_run.pc = "symbols"
    /\ sim_run.symbol_i <= Len(sim_run.args.symbols)
    /\ account' = SimProcessSymbol(account, sim_run.args.symbols[sim_run.symbol_i],
                                   SimMarketData(sim_run.args),
                                   sim_run.all_dates[sim_run.date_i])
    /\ sim_run' = [sim_run EXCEPT !.symbol_i = sim_run.symbol_i + 1]
    /\ UNCHANGED <<is_running, sim_ret>>
    /\ UNCHANGED outside_sim
    /\ UNCHANGED backtest_vars

\* the end of one iteration of the date loop: update_account_value
SimDateEnd ==
    /\ sim_run.pc = "symbols"
    /\ sim_run.symbol_i > Len(sim_run.args.symbols)
    /\ account' = update_account_value(account, SimMarketData(sim_run.args))
    /\ sim_run' = [sim_run EXCEPT !.pc = "check", !.date_i = sim_run.date_i + 1]
    /\ UNCHANGED <<is_running, sim_ret>>
    /\ UNCHANGED outside_sim
    /\ UNCHANGED backtest_vars

\* the loop is over or broken off: the report is printed, run_simulation returns
SimFinish ==
    /\ sim_run.pc = "check"
    /\ ~GoesOn(is_running, sim_run.date_i, sim_run.all_dates)
    /\ sim_run' = [sim_run EXCEPT !.pc = "idle"]
    /\ sim_ret' = Returned("run_simulation", "returned", "none")
    /\ UNCHANGED <<account, is_running>>
    /\ UNCHANGED outside_sim
    /\ UNCHANGED backtest_vars

\* stop_simulation(), called from another thread at any moment
StopSimulation ==
    /\ is_running' = FALSE
    /\ UNCHANGED <<account, sim_run, sim_ret>>
    /\ UNCHANGED outside_sim
    /\ UNCHANGED backtest_vars

NextSim ==
    \/ \E args \in SimArgs : RunSimulation(args)
    \/ SimDateBegin
    \/ SimSymbolStep
    \/ SimDateEnd
    \/ SimFinish
    \/ StopSimulation

SpecSim == Init /\ [][NextSim]_vars

\* the steps of run_simulation as they move its control
SimAdvance ==
    /\ sim_run.pc # "idle"
    /\ sim_run' =
          IF sim_run.pc = "check"
          THEN IF GoesOn(is_running, sim_run.date_i, sim_run.all_dates)
               THEN [sim_run EXCEPT !.pc = "symbols", !.symbol_i = 1]
               ELSE [sim_run EXCEPT !.pc = "idle"]
          ELSE IF sim_run.symbol_i <= Len(sim_run.args.symbols)
               THEN [sim_run EXCEPT !.symbol_i = sim_run.symbol_i + 1]
               ELSE [sim_run EXCEPT !.pc = "check", !.date_i = sim_run.date_i + 1]

\* run_simulation is sequential code: once called, it keeps taking steps
SpecSimFair == SpecSim /\ WF_sim_run(SimAdvance)

----------------------------------------------------------------------------
(* Operations of the data handler *)

\* how far the clock runs and how many requests are made
MaxTime == 12
MaxRequests == 3

\* time passes
Tick ==
    /\ now < MaxTime
    /\ now' = now + 1
    /\ UNCHANGED <<last_request_time, workers, requests>>
    /\ UNCHANGED outside_limiter
    /\ UNCHANGED backtest_vars

\* a thread calls get_daily_data for a symbol that is not cached and comes to
\* self._enforce_rate_limit()
GetDailyData(w) ==
    /\ workers[w].pc = "idle"
    /\ Len(requests) + Cardinality({ v \in Workers : workers[v].pc # "idle" }) < MaxRequests
    /\ workers' = [workers EXCEPT ![w].pc = "limit"]
    /\ UNCHANGED <<now, last_request_time, requests>>
    /\ UNCHANGED outside_limiter
    /\ UNCHANGED backtest_vars

\* current_time = time.time(); time_since_last_request = current_time -
\* self.last_request_time; the thread sleeps if that is below the interval
EnforceRead(w) ==
    /\ workers[w].pc = "limit"
    /\ LET time_since_last_request == now - last_request_time
       IN  workers' =
              IF time_since_last_request < MIN_REQUEST_INTERVAL
              THEN [workers EXCEPT
                      ![w] = [pc |-> "sleep",
                              wake |-> now + (MIN_REQUEST_INTERVAL
                                                - time_since_last_request)]]
              ELSE [workers EXCEPT ![w].pc = "stamp"]
    /\ UNCHANGED <<now, last_request_time, requests>>
    /\ UNCHANGED outside_limiter
    /\ UNCHANGED backtest_vars

\* time.sleep(...) is over
Wake(w) ==
    /\ workers[w].pc = "sleep"
    /\ now >= workers[w].wake
    /\ workers' = [workers EXCEPT ![w] = [pc |-> "stamp", wake |-> 0]]
    /\ UNCHANGED <<now, last_request_time, requests>>
    /\ UNCHANGED outside_limiter
    /\ UNCHANGED backtest_vars

\* self.last_request_time = time.time(), and the request goes out
Request(w) ==
    /\ workers[w].pc = "stamp"
    /\ last_request_time' = now
    /\ requests' = Append(requests, now)
    /\ workers' = [workers EXCEPT ![w].pc = "idle"]
    /\ UNCHANGED now
    /\ UNCHANGED outside_limiter
    /\ UNCHANGED backtest_vars

NextHandler ==
    \/ Tick
    \/ \E w \in Workers : GetDailyData(w)
    \/ \E w \in Workers : EnforceRead(w)
    \/ \E w \in Workers : Wake(w)
    \/ \E w \in Workers : Request(w)

SpecHandler == Init /\ [][NextHandler]_vars

----------------------------------------------------------------------------
(* Operations of the data handler's cache *)

outside_handler == <<backtest_vars, sim_vars, live_vars>>

\* no thread is inside get_daily_data or get_market_data
HandlerQuiet ==
    /\ market.pc = "idle"
    /\ \A w \in Workers : workers[w].pc = "idle"

\* the (symbol, start_date, end_date) the cache is called with
CacheArgs == {<<"X", 1, 2>>, <<"X", 1, 3>>, <<"Y", 1, 2>>}

\* self._save_to_cache(symbol, start_date, end_date, df)
SaveToCache(symbol, start_date, end_date, df, disk) ==
    /\ HandlerQuiet
    /\ LET cache_key == _get_cache_key(symbol, start_date, end_date)
           saved == _save_to_cache(data_cache, cache_files, cache_key, df, disk)
       IN  /\ data_cache' = saved.data_cache
           /\ cache_files' = saved.cache_files
           /\ handler_ret' = [op |-> "_save_to_cache", key |-> cache_key, df |-> df,
                              disk |-> disk, value |-> None]
    /\ UNCHANGED <<calls, market>>
    /\ UNCHANGED handler_vars
    /\ UNCHANGED outside_handler

\* self._load_from_cache(symbol, start_date, end_date)
LoadFromCache(symbol, start_date, end_date) ==
    /\ HandlerQuiet
    /\ LET cache_key == _get_cache_key(symbol, start_date, end_date)
           loaded == _load_from_cache(data_cache, cache_files, cache_key)
       IN  /\ data_cache' = loaded.data_cache
           /\ handler_ret' = [op |-> "_load_from_cache", key |-> cache_key,
                              level |-> loaded.level, value |-> loaded.value]
    /\ UNCHANGED <<cache_files, calls, market>>
    /\ UNCHANGED handler_vars
    /\ UNCHANGED outside_handler

\* DataHandler(cache_dir=...) made anew over the same directory, as the next
\* process does: data_cache = {}, last_request_time = 0
NewHandler ==
    /\ HandlerQuiet
    /\ handler_ret.op # "init"
    /\ data_cache' = [k \in {} |-> EmptyFrame]
    /\ last_request_time' = 0
    /\ handler_ret' = [op |-> "init"]
    /\ calls' = << >>
    /\ UNCHANGED <<cache_files, market>>
    /\ UNCHANGED <<now, workers, requests>>
    /\ UNCHANGED outside_handler

NextCache ==
    \/ \E args \in CacheArgs, df \in Frames, disk \in DiskOutcomes :
          SaveToCache(args[1], args[2], args[3], df, disk)
    \/ \E args \in CacheArgs : LoadFromCache(args[1], args[2], args[3])
    \/ NewHandler

SpecCache == Init /\ [][NextCache]_vars

\* the (start_date, end_date) get_daily_data is called with: day 3 is no trading
\* day and is adjusted to day 2
DailyRanges == {<<1, 2>>, <<1, 3>>}

\* data_handler.get_daily_data(symbol, start_date, end_date) called on one
\* thread, the data source answering `answer`
GetDailyDataCall(symbol, start_date, end_date, answer, disk) ==
    /\ HandlerQuiet
    /\ LET done == get_daily_data(data_cache, cache_files, now, last_request_time,
                                  symbol, start_date, end_date, answer, disk)
       IN  /\ done.now <= MaxTime
           /\ done.hit \/ Len(requests) < MaxRequests
           /\ data_cache' = done.data_cache
           /\ cache_files' = done.cache_files
           /\ now' = done.now
           /\ last_request_time' = done.last_request_time
           /\ requests' = IF done.hit THEN requests ELSE Append(requests, done.now)
           /\ calls' = done.calls
           /\ handler_ret' = [op |-> "get_daily_data", key |-> done.key,
                              hit |-> done.hit, answer |-> answer,
                              value |-> done.value]
    /\ UNCHANGED <<workers, market>>
    /\ UNCHANGED outside_handler

NextDaily ==
    \/ \E symbol \in Symbols, range \in DailyRanges, answer \in Answers,
          disk \in DiskOutcomes :
          GetDailyDataCall(symbol, range[1], range[2], answer, disk)
    \/ NewHandler

SpecDaily == Init /\ [][NextDaily]_vars

----------------------------------------------------------------------------
(* Operations of get_market_data *)

\* how many get_market_data calls are made
MaxMarketRuns == 1

\* the symbol lists get_market_data is called with
MarketSymbols == { <<"X", "Y">>, <<"X", "X">>, <<"Y">> }

\* the range get_market_data is called with
MarketRange == <<1, 3>>

\* what the data source does for each symbol during one call; "calendar_error"
\* is an exception out of get_previous_trading_date, which get_daily_data does
\* not catch
MarketSources ==
    { [s \in Symbols |-> IF s = "X" THEN x ELSE y] :
        x \in {"df1", "error", "calendar_error"}, y \in {"df1", "no_rows"} }

\* the elements of a list
Range(seq) == { seq[i] : i \in 1..Len(seq) }

\* a loop over as_completed that stops at the first future
Collected(futures) == \E i \in 1..Len(futures) : futures[i].pc = "merged"

\* "for future in as_completed(future_to_symbol)" has handled every future, and
\* the executor's with block has joined its threads
Completed(futures) == \A i \in 1..Len(futures) : futures[i].pc = "merged"

\* data_handler.get_market_data(symbols, start_date, end_date): every
\* get_daily_data is submitted to the executor
GetMarketData(symbols, source) ==
    /\ HandlerQuiet
    /\ market.runs < MaxMarketRuns
    /\ Len(requests) + Len(symbols) <= MaxRequests
    /\ market' = [pc |-> "pool", symbols |-> symbols, source |-> source,
                  futures |-> [i \in 1..Len(symbols) |->
                                 [pc |-> "submitted", worker |-> 0, value |-> None]],
                  market_data |-> [s \in {} |-> EmptyFrame],
                  cache_before |-> data_cache, files_before |-> cache_files,
                  runs |-> market.runs + 1]
    /\ UNCHANGED <<data_cache, cache_files, handler_ret, calls>>
    /\ UNCHANGED handler_vars
    /\ UNCHANGED outside_handler

\* a thread of the pool takes a submitted get_daily_data up to its cache
\* lookup: a hit returns the cached frame, a miss comes to
\* self._enforce_rate_limit()
FutureStart(i, w) ==
    /\ market.pc = "pool"
    /\ i \in 1..Len(market.futures)
    /\ market.futures[i].pc = "submitted"
    /\ workers[w].pc = "idle"
    /\ LET symbol == market.symbols[i]
           cache_key == _get_cache_key(symbol,
                                       get_previous_trading_date(MarketRange[1]),
                                       get_previous_trading_date(MarketRange[2]))
           cached_data == Lookup(data_cache, cache_files, cache_key)
       IN  IF market.source[symbol] = "calendar_error"
           THEN /\ market' = [market EXCEPT !.futures[i] =
                                [pc |-> "done", worker |-> 0, value |-> "exception"]]
                /\ UNCHANGED <<data_cache, workers>>
           ELSE IF cached_data.value # None
           THEN /\ market' = [market EXCEPT !.futures[i] =
                                [pc |-> "done", worker |-> 0,
                                 value |-> cached_data.value]]
                /\ data_cache' = cached_data.data_cache
                /\ UNCHANGED workers
           ELSE /\ market' = [market EXCEPT !.futures[i] =
                                [pc |-> "running", worker |-> w, value |-> None]]
                /\ workers' = [workers EXCEPT ![w].pc = "limit"]
                /\ UNCHANGED data_cache
    /\ UNCHANGED <<cache_files, handler_ret, calls>>
    /\ UNCHANGED <<now, last_request_time, requests>>
    /\ UNCHANGED outside_handler

\* the thread is through the rate limiter: self.last_request_time =
\* time.time(), the request goes out, the rows are cleaned and saved, and
\* get_daily_data returns
FutureRequest(i, disk) ==
    /\ market.pc = "pool"
    /\ i \in 1..Len(market.futures)
    /\ market.futures[i].pc = "running"
    /\ workers[market.futures[i].worker].pc = "stamp"
    /\ LET w == market.futures[i].worker
           symbol == market.symbols[i]
           answer == market.source[symbol]
           cache_key == _get_cache_key(symbol,
                                       get_previous_trading_date(MarketRange[1]),
                                       get_previous_trading_date(MarketRange[2]))
           saved == _save_to_cache(data_cache, cache_files, cache_key,
                                   Cleaned(answer), disk)
       IN  /\ last_request_time' = now
           /\ requests' = Append(requests, now)
           /\ workers' = [workers EXCEPT ![w].pc = "idle"]
           /\ IF answer \in {"no_rows", "error"}
              THEN /\ market' = [market EXCEPT !.futures[i] =
                                   [pc |-> "done", worker |-> 0, value |-> EmptyFrame]]
                   /\ UNCHANGED <<data_cache, cache_files>>
              ELSE /\ market' = [market EXCEPT !.futures[i] =
                                   [pc |-> "done", worker |-> 0,
                                    value |-> Cleaned(answer)]]
                   /\ data_cache' = saved.data_cache
                   /\ cache_files' = saved.cache_files
    /\ UNCHANGED <<handler_ret, calls, now>>
    /\ UNCHANGED outside_handler

\* as_completed yields a finished future: data = future.result(); "if not
\* data.empty: market_data[symbol] = data"; an exception is printed
Merge(i) ==
    /\ market.pc = "pool"
    /\ i \in 1..Len(market.futures)
    /\ market.futures[i].pc = "done"
    /\ LET symbol == market.symbols[i]
           data == market.futures[i].value
       IN  market' = [market EXCEPT
                        !.futures[i].pc = "merged",
                        !.market_data =
                            IF data \notin {"exception", EmptyFrame}
                            THEN DictSet(market.market_data, symbol, data)
                            ELSE market.market_data]
    /\ UNCHANGED <<data_cache, cache_files, handler_ret, calls>>
    /\ UNCHANGED handler_vars
    /\ UNCHANGED outside_handler

\* "return market_data"
MarketReturn ==
    /\ market.pc = "pool"
    /\ Completed(market.futures)
    /\ handler_ret' = [op |-> "get_market_data", symbols |-> market.symbols,
                       source |-> market.source,
                       cache_before |-> market.cache_before,
                       files_before |-> market.files_before,
                       futures |-> market.futures,
                       value |-> market.market_data]
    /\ market' = [MarketIdle EXCEPT !.runs = market.runs]
    /\ UNCHANGED <<data_cache, cache_files, calls>>
    /\ UNCHANGED handler_vars
    /\ UNCHANGED outside_handler

\* the limiter's steps EnforceRead and Wake are those of the threads above
NextMarket ==
    \/ \E symbols \in MarketSymbols, source \in MarketSources :
          GetMarketData(symbols, source)
    \/ \E i \in 1..2, w \in Workers : FutureStart(i, w)
    \/ \E w \in Workers : EnforceRead(w)
    \/ \E w \in Workers : Wake(w)
    \/ Tick
    \/ \E i \in 1..2, disk \in DiskOutcomes : FutureRequest(i, disk)
    \/ \E i \in 1..2 : Merge(i)
    \/ MarketReturn

\* the engines play no part in a fetch: one initial capital
InitMarket == Init /\ initial_capital = Yuan(100000)

SpecMarket == InitMarket /\ [][NextMarket]_vars

----------------------------------------------------------------------------
(* Operations of the live variant *)

outside_live == <<backtest_vars, sim_vars, handler_vars, cache_vars>>

\* how many orders are placed
MaxOrders == 2

\* the ids time.time() and np.random.randint give: two orders placed in the
\* same second can draw the same number
OrderIds == {"ORDER_1_1000", "ORDER_1_1001"}

\* the signals TradingAPI.buy and sell place: 100 shares
LiveSignals ==
    { TradeSignal(D1, "X", a, 0, 100, "", 800) : a \in {"BUY", "SELL"} }

\* the prices check_orders draws, 10.0 + random() * 20, and NoFill for a draw
\* that leaves the order waiting
LiveDraws == {NoFill, 1000, 2000}

\* the engine as the operators above take it
Live == LiveState(live_account, orders, pending_orders, order_history)

\* engine.place_order(signal)
PlaceOrder(signal, order_id) ==
    /\ Len(orders) < MaxOrders
    /\ LET placed == place_order(Live, signal, order_id)
       IN  /\ orders' = placed.orders
           /\ pending_orders' = placed.pending_orders
    /\ live_ret' = [op |-> "place_order", order_id |-> order_id, value |-> order_id]
    /\ UNCHANGED <<live_account, order_history>>
    /\ UNCHANGED outside_live

\* engine.cancel_order(order_id)
CancelOrder(order_id) ==
    /\ LET done == cancel_order(Live, order_id)
       IN  /\ orders' = done.state.orders
           /\ pending_orders' = done.state.pending_orders
           /\ live_ret' = [op |-> "cancel_order", order_id |-> order_id,
                           value |-> done.value]
    /\ UNCHANGED <<live_account, order_history>>
    /\ UNCHANGED outside_live

\* engine.check_orders()
CheckOrders(draws) ==
    /\ pending_orders # << >>
    /\ LET done == check_orders(Live, pending_orders, draws)
       IN  /\ live_account' = done.account
           /\ orders' = done.orders
           /\ pending_orders' = done.pending_orders
           /\ order_history' = done.order_history
    /\ live_ret' = [op |-> "check_orders", order_id |-> "none", value |-> None]
    /\ UNCHANGED outside_live

NextLive ==
    \/ \E signal \in LiveSignals, order_id \in OrderIds : PlaceOrder(signal, order_id)
    \/ \E order_id \in OrderIds : CancelOrder(order_id)
    \/ \E draws \in [1..MaxOrders -> LiveDraws] : CheckOrders(draws)

SpecLive == Init /\ [][NextLive]_vars

\* BacktestEngine(initial_capital=...) takes whatever number it is given: the
\* constructor stores it unexamined
ConstructorCapitals == InitialCapitals \cup {Yuan(0), -Yuan(1000)}

InitAnyCapital ==
    /\ initial_capital \in ConstructorCapitals
    /\ current_capital = initial_capital
    /\ positions = NoPositions
    /\ trade_log = << >>
    /\ equity_curve = << >>
    /\ ret = Returned("init", "none", "none")
    /\ pc = "idle"
    /\ run_args = Unset
    /\ all_dates = << >>
    /\ date_i = 0
    /\ symbol_i = 0
    /\ daily_trades = 0
    /\ result = Unset
    /\ prev_run = Unset
    /\ runs = 0
    /\ result_shares_log = FALSE
    /\ InitSimulation
    /\ InitHandler
    /\ InitCache
    /\ InitLive

\* the ledger driven directly on an engine built with any capital
SpecAnyCapital == InitAnyCapital /\ [][Next]_vars

----------------------------------------------------------------------------
(* Properties of the ledger.  The expected values are written from the       *)
(* contract, on the state before the call, without the operators above.      *)

\* the record a filled call appended
LastRecord(log) == log[Len(log)]

\* shares affordable at `price` from `cash`: the largest multiple of the lot whose
\* price with commission rate applied is within the cash
AffordableShares(cash, price) ==
    ((cash * 10) \div (price * (10000 + COMMISSION_RATE_E4))) * LOT_SIZE

\* max(amount * commission_rate, 5) in mills
ExpectedCommission(amount) ==
    LET proportional == (amount * COMMISSION_RATE_E4) \div 10000
    IN  IF proportional > Yuan(MIN_COMMISSION) THEN proportional ELSE Yuan(MIN_COMMISSION)

\* C1: after any sequence of BUY and SELL executions, accepted or rejected,
\* starting from cash = initial_capital > 0 with positive prices, cash is never
\* negative.
C1_CashNeverNegative == current_capital >= 0

\* what the contract says of a BUY of `signal` called in the current state
BuyPost(signal) ==
    LET affordable == AffordableShares(current_capital, signal.price)
        actual == IF signal.volume <= affordable THEN signal.volume ELSE affordable
        cost == Amount(actual, signal.price)
        commission == ExpectedCommission(cost)
        held == IF signal.symbol \in DOMAIN positions
                THEN positions[signal.symbol].quantity ELSE 0
    IN  IF actual <= 0 \/ cost + commission > current_capital
        THEN /\ ret'.ok = "False"
             /\ UNCHANGED ledger
        ELSE /\ ret'.ok = "True"
             /\ current_capital' = current_capital - (cost + commission)
             /\ positions'[signal.symbol].quantity = held + actual
             /\ Len(trade_log') = Len(trade_log) + 1
             /\ LastRecord(trade_log').quantity = actual
             /\ LastRecord(trade_log').commission = commission
             /\ LastRecord(trade_log').capital_after = current_capital'

\* Scenario A: cash 100000, BUY 1000 @ 10.0
ScenarioA == TradeSignal(D1, "X", "BUY", 1000, 1000, "Test signal", 800)

ScenarioAPost ==
    /\ current_capital' = Yuan(89995)
    /\ positions' = [s \in {"X"} |-> Position("X", 1000, [num |-> 1000, den |-> 1], D1)]

\* C2: a BUY fills min(volume, affordable rounded down to the lot), is rejected if
\* that is <= 0 or if cost + commission > cash, and when accepted cash decreases by
\* exactly cost + commission; Scenario A leaves cash 89995 and 1000 shares at 10.0.
C2_BuyFill ==
    [][/\ \A signal \in DirectSignals :
             (signal.action = "BUY" /\ ExecuteTrade(signal, TestQuotes)) => BuyPost(signal)
       /\ (current_capital = Yuan(100000) /\ positions = NoPositions
             /\ ExecuteTrade(ScenarioA, TestQuotes)) => ScenarioAPost]_vars

\* the state after Scenario A
C2_ScenarioAFilled ==
    /\ initial_capital = Yuan(100000)
    /\ current_capital = Yuan(89995)
    /\ Len(trade_log) = 1
    /\ "X" \in DOMAIN positions
    /\ positions["X"].quantity = 1000

\* C3: after any sequence of execute operations, every held quantity is a
\* non-negative multiple of the lot size 100.
C3_LotMultiple ==
    \A s \in DOMAIN positions :
        positions[s].quantity >= 0 /\ positions[s].quantity % LOT_SIZE = 0

\* the steps that change the position map the way the contract allows: an entry
\* appears only by a filled BUY of the symbol, and disappears only by reset or
\* by a filled SELL of the whole holding
PositionMapStep ==
    \A s \in Symbols :
        /\ (s \notin DOMAIN positions /\ s \in DOMAIN positions') =>
              /\ ret'.op = "execute_trade" /\ ret'.ok = "True"
              /\ Len(trade_log') = Len(trade_log) + 1
              /\ LastRecord(trade_log').symbol = s
              /\ LastRecord(trade_log').action = "BUY"
              /\ positions'[s].quantity = LastRecord(trade_log').quantity
        /\ (s \in DOMAIN positions /\ s \notin DOMAIN positions') =>
              \/ ret'.op = "reset"
              \/ /\ ret'.op = "execute_trade" /\ ret'.ok = "True"
                 /\ LastRecord(trade_log').symbol = s
                 /\ LastRecord(trade_log').action = "SELL"
                 /\ LastRecord(trade_log').quantity = positions[s].quantity
        /\ (s \in DOMAIN positions /\ s \in DOMAIN positions'
              /\ positions'[s].quantity < positions[s].quantity) =>
              LastRecord(trade_log').quantity < positions[s].quantity

\* C4: a symbol is a key of the position map iff its held quantity is > 0: the
\* entry is created by the first filled BUY and removed exactly when a SELL
\* brings the quantity to 0; no state holds a position of quantity <= 0.
C4_HeldIffPositive ==
    /\ [](\A s \in DOMAIN positions : positions[s].quantity > 0)
    /\ [][PositionMapStep]_vars

\* a SELL has just sold a whole holding and its entry is gone
C4_SoldOut ==
    /\ ret.op = "execute_trade" /\ ret.ok = "True"
    /\ LastRecord(trade_log).action = "SELL"
    /\ LastRecord(trade_log).symbol \notin DOMAIN positions
    /\ positions # NoPositions

\* the three rejections of the contract, on the state before the call
RejectCase(signal) ==
    LET affordable == AffordableShares(current_capital, signal.price)
        actual == IF signal.volume <= affordable THEN signal.volume ELSE affordable
        cost == Amount(actual, signal.price)
    IN  \/ signal.action = "BUY" /\ actual <= 0
        \/ signal.action = "BUY" /\ cost + ExpectedCommission(cost) > current_capital
        \/ signal.action = "SELL" /\ signal.symbol \notin DOMAIN positions

\* C5: whenever execute_trade rejects a signal, cash, the position map, the
\* trade log and the equity curve are exactly what they were before the call.
C5_AllOrNothing ==
    [][\A signal \in DirectSignals :
          (ret'.op = "execute_trade" /\ (RejectCase(signal) \/ ret'.ok = "False")
             /\ ExecuteTrade(signal, TestQuotes))
            => (ret'.ok = "False" /\ UNCHANGED ledger /\ UNCHANGED initial_capital)]_vars

\* a BUY has just been rejected by the second check: its lot is affordable at
\* the price, its cost with the minimum commission is not
C5_CostExceedsCapital ==
    /\ ret.op = "execute_trade" /\ ret.ok = "False"
    /\ ret.debug = "cost exceeds capital"

\* what the contract says of a SELL of `signal` called in the current state
SellPost(signal) ==
    IF signal.symbol \notin DOMAIN positions
    THEN ret'.ok = "False" /\ UNCHANGED ledger
    ELSE LET old == positions[signal.symbol]
             actual == IF signal.volume <= old.quantity THEN signal.volume
                       ELSE old.quantity
             revenue == Amount(actual, signal.price)
             net == revenue - ExpectedCommission(revenue) - revenue \div 1000
         IN  /\ ret'.ok = "True"
             /\ current_capital' = current_capital + net
             /\ LastRecord(trade_log').quantity = actual
             /\ IF old.quantity = actual
                THEN signal.symbol \notin DOMAIN positions'
                ELSE positions'[signal.symbol] =
                        [old EXCEPT !.quantity = old.quantity - actual]
             /\ \A s \in DOMAIN positions \ {signal.symbol} :
                    s \in DOMAIN positions' /\ positions'[s] = positions[s]

\* Scenario B: after Scenario A, SELL 1000 @ 12.0
ScenarioB == TradeSignal(D2, "X", "SELL", 1200, 1000, "Test signal", 800)

\* C6: a SELL fails if the symbol is not held; otherwise it fills min(volume,
\* held), adds revenue - max(revenue * rate, 5) - revenue * 0.001 to cash, lowers
\* the quantity, removes the position at 0 and otherwise keeps avg_price and
\* entry_date; Scenario B gives cash 101978 and no position.
C6_SellFill ==
    [][/\ \A signal \in DirectSignals :
             (signal.action = "SELL" /\ ExecuteTrade(signal, TestQuotes))
               => SellPost(signal)
       /\ (current_capital = Yuan(89995) /\ DOMAIN positions = {"X"}
             /\ positions["X"].quantity = 1000 /\ ExecuteTrade(ScenarioB, TestQuotes))
            => (current_capital' = Yuan(101978) /\ positions' = NoPositions)]_vars

\* the state after Scenario A then Scenario B
C6_ScenarioBFilled ==
    /\ current_capital = Yuan(101978)
    /\ positions = NoPositions
    /\ Len(trade_log) = 2
    /\ LastRecord(trade_log).action = "SELL"
    /\ LastRecord(trade_log).quantity = 1000

\* what the contract says of the position after a filled BUY of `signal`
AveragePost(signal) ==
    LET new == positions'[signal.symbol]
        actual == LastRecord(trade_log').quantity
    IN  IF signal.symbol \in DOMAIN positions
        THEN LET old == positions[signal.symbol]
                 \* (old_avg * old_qty + price * actual) / (old_qty + actual) as the
                 \* fraction total / shares
                 total == old.avg_price.num * old.quantity
                            + signal.price * actual * old.avg_price.den
                 shares == old.avg_price.den * (old.quantity + actual)
             IN  /\ new.quantity = old.quantity + actual
                 \* new.avg_price is total / shares: the two fractions differ by a
                 \* common factor
                 /\ shares % new.avg_price.den = 0
                 /\ total = (shares \div new.avg_price.den) * new.avg_price.num
                 /\ new.entry_date = old.entry_date
        ELSE /\ new.quantity = actual
             /\ new.avg_price = [num |-> signal.price, den |-> 1]
             /\ new.entry_date = signal.date

\* C7: a filled BUY on a held symbol sets avg_price to the quantity-weighted
\* average, adds the fill to the quantity and keeps entry_date; on a symbol not
\* held it creates a position with avg_price = price, entry_date = signal date.
C7_WeightedAverage ==
    [][\A signal \in DirectSignals :
          (signal.action = "BUY" /\ ExecuteTrade(signal, TestQuotes) /\ ret'.ok = "True")
            => AveragePost(signal)]_vars

\* 600 shares bought at 100.00 on D1 and 1000 more at 10.00: 1600 at 43.75
C7_TwoBuys ==
    /\ "X" \in DOMAIN positions
    /\ positions["X"].quantity = 1600
    /\ positions["X"].avg_price = [num |-> 4375, den |-> 1]
    /\ positions["X"].entry_date = D1

----------------------------------------------------------------------------
(* Properties of the scheduler *)

\* position sizing of the contract: floor(balance * 0.02 / price) rounded down to
\* the lot, at least one lot
SizedShares(balance, price) ==
    LET lots == ((balance * RISK_PER_TRADE_E2) \div (price * 1000)) \div LOT_SIZE
    IN  IF lots >= 1 THEN lots * LOT_SIZE ELSE LOT_SIZE

Least(S) == CHOOSE x \in S : \A y \in S : x <= y

\* one iteration of the symbol loop, seen from outside: the records it appends
\* are of the symbol at the loop's position in the caller's list, dated today,
\* and each BUY is sized and priced from the cash the record before it left
SymbolOrderStep ==
    LET symbol == run_args.symbols[symbol_i]
        today == strftime(all_dates[date_i])
        new == SubSeq(trade_log', Len(trade_log) + 1, Len(trade_log'))
        before(k) == IF k = 1 THEN current_capital ELSE new[k - 1].capital_after
        market_data == MarketData(run_args.market_data)
    IN  /\ Len(trade_log') >= Len(trade_log)
        /\ SubSeq(trade_log', 1, Len(trade_log)) = trade_log
        /\ daily_trades' = daily_trades + Len(new)
        /\ current_capital' = before(Len(new) + 1)
        /\ \A k \in 1..Len(new) :
              /\ new[k].symbol = symbol
              /\ new[k].date = today
              /\ new[k].action = "BUY" =>
                    /\ new[k].quantity =
                          Least({DEFAULT_VOLUME, SizedShares(before(k), new[k].price),
                                 AffordableShares(before(k), new[k].price)})
                    /\ new[k].capital_after =
                          before(k) - Amount(new[k].quantity, new[k].price)
                            - ExpectedCommission(Amount(new[k].quantity, new[k].price))
        \* a BUY rejected for lack of funds: not one lot is affordable at today's
        \* close from the cash the earlier symbols left
        /\ (ret'.ok = "False" /\ ret'.debug = "no funds to buy") =>
              /\ symbol \in DOMAIN market_data
              /\ RowsOn(market_data[symbol], today) # << >>
              /\ AffordableShares(current_capital',
                                  RowsOn(market_data[symbol], today)[1].close) = 0

\* Scenario C: cash 100000, X and Y each BUY 600 @ 100 in the order X, Y
ScenarioCStep ==
    /\ (current_capital = Yuan(100000) /\ positions = NoPositions
          /\ ExecuteTrade(ScenarioC("X"), TestQuotes)) =>
          /\ ret'.ok = "True"
          /\ LastRecord(trade_log').quantity = 600
          /\ current_capital' = Yuan(39982)
    /\ (current_capital = Yuan(39982) /\ DOMAIN positions = {"X"}
          /\ ExecuteTrade(ScenarioC("Y"), TestQuotes)) =>
          \/ ret'.ok = "False" /\ UNCHANGED ledger
          \/ /\ ret'.ok = "True"
             /\ LastRecord(trade_log').symbol = "Y"
             /\ LastRecord(trade_log').quantity < 600
             /\ LastRecord(trade_log').quantity = AffordableShares(Yuan(39982), 10000)

\* C8: within one date the scheduler processes the symbols in the caller's list
\* order against the one cash pool: the later symbol's BUY is computed from the
\* cash the earlier fill left, so it is reduced or rejected (Scenario C: X fills
\* 600, Y fills less than 600 or is rejected).
C8_ListOrderSharedCash ==
    [][/\ (pc = "loop" /\ symbol_i' = symbol_i + 1) => SymbolOrderStep
       /\ ScenarioCStep]_vars

\* in a run over [first, second] the first symbol's BUY has filled and the second
\* symbol's BUY of the same date has been rejected for lack of funds
C8_SecondRejected ==
    /\ pc = "loop"
    /\ symbol_i = 3
    /\ daily_trades = 1
    /\ trade_log # << >>
    /\ LastRecord(trade_log).symbol = run_args.symbols[1]
    /\ LastRecord(trade_log).action = "BUY"
    /\ LastRecord(trade_log).date = strftime(all_dates[date_i])
    /\ ret.ok = "False"
    /\ ret.debug = "no funds to buy"

\* C9: running the backtest twice on the same engine with identical symbols,
\* market data and window yields identical results (trade log, equity curve,
\* metrics), whatever an earlier run or earlier direct calls left behind.
C9_RunsDeterministic ==
    [][(pc = "loop" /\ pc' = "idle" /\ runs > 1 /\ prev_run.args = run_args) =>
          /\ result' = prev_run.result
          /\ equity_curve' = prev_run.curve
          /\ trade_log' = prev_run.log]_vars

\* a second run with the arguments of the first has returned, and it traded
C9_SecondRunSame ==
    /\ pc = "idle"
    /\ runs > 1
    /\ ret.op = "run_backtest"
    /\ prev_run.args = run_args
    /\ prev_run.result = result
    /\ result.total_trades > 1

\* the ledger fields reset() would give in the state after this step
ResetAgain == reset(initial_capital')

\* C10: reset() sets cash to initial_capital, empties the position map, the
\* trade log and the equity curve, leaves initial_capital unchanged; a second
\* reset() right after gives the same state.
C10_ResetRestores ==
    [][Reset =>
          /\ current_capital' = initial_capital
          /\ DOMAIN positions' = {}
          /\ trade_log' = << >>
          /\ equity_curve' = << >>
          /\ initial_capital' = initial_capital
          /\ << ResetAgain.cash, ResetAgain.positions, ResetAgain.log, ResetAgain.curve >>
               = << current_capital', positions', trade_log', equity_curve' >>]_vars

\* reset() has just been called after a run that traded
C10_ResetAfterRun ==
    /\ ret.op = "reset"
    /\ runs > 0
    /\ result.total_trades > 0
    /\ current_capital = initial_capital
    /\ equity_curve = << >>

\* a SELL of `signal` that fills right after a filled BUY of the same symbol, at
\* the same price and for the same quantity
RoundTrip(signal) ==
    /\ signal.action = "SELL"
    /\ ret.op = "execute_trade" /\ ret.ok = "True"
    /\ trade_log # << >>
    /\ LastRecord(trade_log).action = "BUY"
    /\ LastRecord(trade_log).symbol = signal.symbol
    /\ LastRecord(trade_log).price = signal.price
    /\ ExecuteTrade(signal, TestQuotes)
    /\ ret'.ok = "True"
    /\ LastRecord(trade_log').quantity = LastRecord(trade_log).quantity

\* the traded amount of the round trip whose BUY is the last record
RoundTripAmount == Amount(LastRecord(trade_log).quantity, LastRecord(trade_log).price)

\* cash before the BUY whose record is the last one
CashBeforeBuy == current_capital + RoundTripAmount + ExpectedCommission(RoundTripAmount)

\* C11: a filled BUY followed immediately by a filled SELL of the same quantity
\* at the same price leaves cash strictly below its value before the BUY, by two
\* commissions and the stamp tax, and leaves no position in the symbol when the
\* symbol was not held before the BUY.
C11_FlatRoundTripLoses ==
    [][\A signal \in DirectSignals :
          RoundTrip(signal) =>
            /\ current_capital' < CashBeforeBuy
            /\ current_capital' = CashBeforeBuy - 2 * ExpectedCommission(RoundTripAmount)
                                     - RoundTripAmount \div 1000
            /\ positions[signal.symbol].quantity = LastRecord(trade_log).quantity
                  => signal.symbol \notin DOMAIN positions']_vars

\* C11 as stated: the round trip leaves no position whatever was held before
C11_RoundTripLeavesNoPosition ==
    [][\A signal \in DirectSignals :
          RoundTrip(signal) =>
            /\ current_capital' < CashBeforeBuy
            /\ signal.symbol \notin DOMAIN positions']_vars

\* BUY 1000 @ 10.0 then SELL 1000 @ 10.0 from 100000: cash 99980, nothing held
C11_RoundTripDone ==
    /\ initial_capital = Yuan(100000)
    /\ Len(trade_log) = 2
    /\ trade_log[1].action = "BUY" /\ trade_log[2].action = "SELL"
    /\ trade_log[1].symbol = "X" /\ trade_log[2].symbol = "X"
    /\ trade_log[1].price = 1000 /\ trade_log[2].price = 1000
    /\ trade_log[1].quantity = 1000 /\ trade_log[2].quantity = 1000
    /\ current_capital = Yuan(99980)
    /\ positions = NoPositions

(* Properties of run_backtest.  A run is under way while pc = "loop" and has   *)
(* just returned when pc = "idle" and ret.op = "run_backtest".                 *)

RunUnderWay == pc = "loop"
RunReturned == pc = "idle" /\ ret.op = "run_backtest"

\* the days of the window on which some listed symbol of the data has a bar
RunDays ==
    LET market_data == MarketData(run_args.market_data)
    IN  { d \in run_args.start_date..run_args.end_date :
            \E i \in 1..Len(run_args.symbols) :
               /\ run_args.symbols[i] \in DOMAIN market_data
               /\ \E k \in 1..Len(market_data[run_args.symbols[i]]) :
                     market_data[run_args.symbols[i]][k].date \div TicksPerDay = d }

\* the i-th point of the curve is dated the i-th smallest day of RunDays
CurveFollowsRunDays ==
    \A i \in 1..Len(equity_curve) :
       /\ equity_curve[i][1] \in RunDays
       /\ Cardinality({ d \in RunDays : d <= equity_curve[i][1] }) = i

\* points are appended one at a time, and only once the symbol loop of the date is over
CurvePointStep ==
    (RunUnderWay /\ equity_curve' # equity_curve) =>
       /\ symbol_i > Len(run_args.symbols)
       /\ Len(equity_curve') = Len(equity_curve) + 1
       /\ \A i \in 1..Len(equity_curve) : equity_curve'[i] = equity_curve[i]

\* C12: a run appends exactly one equity-curve point per date of the sorted
\* union of the requested symbols' dates within [start_date, end_date], after all
\* symbols were processed for that date; the dates of the curve are strictly
\* increasing.
C12_OnePointPerDate ==
    /\ []((RunUnderWay \/ RunReturned) =>
            /\ CurveFollowsRunDays
            /\ RunReturned => Len(equity_curve) = Cardinality(RunDays)
            /\ \A i, j \in 1..Len(equity_curve) :
                  i < j => equity_curve[i][1] < equity_curve[j][1])
    /\ [][CurvePointStep]_vars

\* a returned run whose last date, day 53, is a date of the second symbol only
C12_UnionOfDates ==
    /\ RunReturned
    /\ run_args.market_data = "ufu_short"
    /\ Len(equity_curve) = 5
    /\ equity_curve[5][1] = 53
    /\ \A k \in 1..Len(MarketData("ufu_short")["X"]) :
          MarketData("ufu_short")["X"][k].date # to_datetime(53)

\* the place of `symbol` in the caller's list
ListIndex(symbol) ==
    CHOOSE i \in 1..Len(run_args.symbols) : run_args.symbols[i] = symbol

\* the records of a run are in execution order: by date, then by list order
LogInRunOrder ==
    \A i, j \in 1..Len(trade_log) :
       i < j =>
         /\ trade_log[i].date <= trade_log[j].date
         /\ trade_log[i].date = trade_log[j].date
              => ListIndex(trade_log[i].symbol) <= ListIndex(trade_log[j].symbol)

\* the log after the step starts with the log before it
LogExtended ==
    /\ Len(trade_log') >= Len(trade_log)
    /\ \A i \in 1..Len(trade_log) : trade_log'[i] = trade_log[i]

\* C13: the trade log is append-only and ordered by execution: within a run
\* the record dates are non-decreasing and, among records of one date, the
\* symbols appear in the order of the caller's list; a later execute operation
\* never modifies or removes an existing record.
C13_LogAppendOnly ==
    /\ []((RunUnderWay \/ RunReturned) => LogInRunOrder)
    /\ [][(SymbolStep \/ \E signal \in ScenarioSignals : ExecuteTrade(signal, TestQuotes))
            => LogExtended]_vars

\* a returned run over the list Y, X: Y then X on one date, then a later date
C13_TwoSymbolsTwoDates ==
    /\ RunReturned
    /\ run_args.symbols = << "Y", "X" >>
    /\ Len(trade_log) >= 3
    /\ trade_log[1].symbol = "Y" /\ trade_log[2].symbol = "X"
    /\ trade_log[1].date = trade_log[2].date
    /\ trade_log[2].date < trade_log[3].date

\* the close of `symbol` in a bar dated exactly `day`, 0 when there is none
ExactClose(market_data, symbol, day) ==
    IF symbol \in DOMAIN market_data
       /\ \E k \in 1..Len(market_data[symbol]) :
             market_data[symbol][k].date = day * TicksPerDay
    THEN LET k == CHOOSE k \in 1..Len(market_data[symbol]) :
                      market_data[symbol][k].date = day * TicksPerDay
         IN  market_data[symbol][k].close
    ELSE 0

\* quantity times exact close of `symbol` in the position map `pos`, 0 when not held
HeldWorth(pos, market_data, symbol, day) ==
    IF symbol \in DOMAIN pos
    THEN pos[symbol].quantity * ExactClose(market_data, symbol, day) * 10
    ELSE 0

\* cash plus the worth of every holding on exactly `day`
ExpectedEquity(cash, pos, market_data, day) ==
    cash + HeldWorth(pos, market_data, "X", day) + HeldWorth(pos, market_data, "Y", day)

\* C14: the equity of a date is cash plus, over the held symbols, quantity
\* times the close of the bar dated exactly that date; a held symbol with no bar
\* on that date, or absent from the market data, contributes 0 (no earlier price
\* is carried forward).  This holds of the equity-curve point of each date of a
\* run and of the equity written in the record of a direct fill.
C14_EquityExactDate ==
    [][/\ DateEnd =>
            equity_curve'[Len(equity_curve')] =
               << all_dates[date_i] \div TicksPerDay,
                  ExpectedEquity(current_capital, positions,
                                 MarketData(run_args.market_data),
                                 all_dates[date_i] \div TicksPerDay) >>
       /\ \A signal \in ScenarioSignals :
             (ExecuteTrade(signal, TestQuotes) /\ ret'.ok = "True") =>
                trade_log'[Len(trade_log')].equity =
                   ExpectedEquity(current_capital', positions', TestQuotes, signal.date)
      ]_vars

\* day 53 of the run on "ufu_short": X is held and has no bar, so the point of
\* the day is the cash alone, below the point of day 52
C14_HeldWithoutBar ==
    /\ (RunUnderWay \/ RunReturned)
    /\ run_args.market_data = "ufu_short"
    /\ Len(equity_curve) = 5
    /\ "X" \in DOMAIN positions
    /\ equity_curve[5] = << 53, current_capital >>
    /\ equity_curve[4][2] > current_capital

\* the number of bars of `symbol` dated no later than the timestamp `ts`
BarsUpTo(market_data, symbol, ts) ==
    IF symbol \in DOMAIN market_data
    THEN Cardinality({ k \in 1..Len(market_data[symbol]) : market_data[symbol][k].date <= ts })
    ELSE 0

\* the symbol loop is at a symbol that has fewer than 50 bars up to the date
ShortOfBars ==
    /\ RunUnderWay
    /\ date_i <= Len(all_dates)
    /\ symbol_i <= Len(run_args.symbols)
    /\ BarsUpTo(MarketData(run_args.market_data), run_args.symbols[symbol_i],
                all_dates[date_i]) < 50

\* C15: no trade is executed for a symbol on a date on which the symbol has
\* fewer than 50 bars dated on or before that date: the symbol is skipped for
\* that date only, the ledger is untouched, and the loop goes on to the other
\* symbols and to the equity point of the date.
C15_WarmupSkips ==
    /\ []((RunUnderWay \/ RunReturned) =>
            \A i \in 1..Len(trade_log) :
               BarsUpTo(MarketData(run_args.market_data), trade_log[i].symbol,
                        trade_log[i].date * TicksPerDay) >= 50)
    /\ [][(ShortOfBars /\ SymbolStep) =>
            /\ UNCHANGED <<ledger, daily_trades, date_i, pc>>
            /\ symbol_i' = symbol_i + 1]_vars

\* day 50 of the run on "ufu_short": X has traded, Y with its 31 bars was skipped
C15_ShortSymbolSkipped ==
    /\ RunUnderWay
    /\ run_args.market_data = "ufu_short"
    /\ date_i <= Len(all_dates) /\ all_dates[date_i] = to_datetime(50)
    /\ symbol_i = 3
    /\ BarsUpTo(MarketData("ufu_short"), "Y", to_datetime(50)) = 31
    /\ Len(trade_log) = 1
    /\ trade_log[1].symbol = "X"

\* the cash a record appended by the current step was submitted on: the cash
\* before the step for the first new record, the cash the record before it left
\* for a later one
CashAtSubmission(i) ==
    IF i = Len(trade_log) + 1 THEN current_capital ELSE trade_log'[i - 1].capital_after

\* the volume the scheduler submits for a signal at `price` on `cash`
SubmittedVolume(cash, price) == Least({DEFAULT_VOLUME, SizedShares(cash, price)})

\* C16: the scheduler only shrinks the volume of a generated signal: the
\* volume submitted is min(raw volume, position size from the price and the cash
\* at submission), so the quantity filled in a run never exceeds the raw volume
\* 1000 nor the position size computed from the current cash; a BUY fills the
\* submitted volume or what the cash affords.
C16_SchedulerOnlyShrinks ==
    [][SymbolStep =>
         \A i \in (Len(trade_log) + 1)..Len(trade_log') :
            /\ trade_log'[i].quantity <= DEFAULT_VOLUME
            /\ trade_log'[i].quantity <= SizedShares(CashAtSubmission(i), trade_log'[i].price)
            /\ trade_log'[i].action = "BUY" =>
                 trade_log'[i].quantity =
                    Least({SubmittedVolume(CashAtSubmission(i), trade_log'[i].price),
                           AffordableShares(CashAtSubmission(i), trade_log'[i].price)})
            /\ trade_log'[i].action = "SELL" =>
                 trade_log'[i].quantity <=
                    SubmittedVolume(CashAtSubmission(i), trade_log'[i].price)]_vars

\* the run on the share at 1.00 from cash 100000: the position size is above
\* the raw volume, and the raw volume 1000 is what was filled
C16_RawVolumeKept ==
    /\ (RunUnderWay \/ RunReturned)
    /\ run_args.market_data = "cheap_fuf"
    /\ trade_log # << >>
    /\ SizedShares(initial_capital, trade_log[1].price) > DEFAULT_VOLUME
    /\ trade_log[1].quantity = DEFAULT_VOLUME

\* C17: for every positive price and non-negative capital,
\* calculate_position_size returns max(100, the largest multiple of 100 not
\* above floor(capital * 0.02 / price)), and so always a multiple of 100 that is
\* at least 100.
C17_PositionSizeExact ==
    ret.op = "calculate_position_size" =>
       /\ ret.value = SizedShares(ret.account_balance, ret.price)
       /\ ret.value % LOT_SIZE = 0
       /\ ret.value >= LOT_SIZE

\* the fields of a BacktestResult
ResultFields ==
    {"total_return", "annual_return", "volatility", "sharpe_ratio", "max_drawdown",
     "win_rate", "profit_factor", "total_trades", "winning_trades", "losing_trades",
     "final_equity", "trade_log"}

\* an iteration of the symbol loop keeps the run going, whatever happened to the
\* symbol (absent from the data, short of bars, signal rejected), and appends as
\* many records as it had fills
SymbolStepGoesOn ==
    SymbolStep =>
       /\ pc' = "loop"
       /\ symbol_i' = symbol_i + 1
       /\ Len(trade_log') - Len(trade_log) = daily_trades' - daily_trades
       /\ (ret'.op = "execute_trade" /\ ret'.ok = "False" /\ daily_trades' = daily_trades)
            => UNCHANGED ledger

\* C18: no per-date or per-symbol failure aborts a run (a symbol missing from
\* the data, a symbol short of warm-up bars, a rejected signal): the run
\* continues with the next symbol or date, terminates over the finite date list
\* and returns a BacktestResult; a rejected signal leaves no record.
C18_RunAlwaysReturns ==
    /\ [][SymbolStepGoesOn /\ (RunFinish => DOMAIN result' = ResultFields)]_vars
    /\ (RunUnderWay ~> RunReturned)

\* a run from cash 10 on "ufu_short" has returned: X was short of bars on day 49
\* and its BUY was rejected on day 50, Y was short of bars on every date
C18_ReturnedAfterFailures ==
    /\ RunReturned
    /\ initial_capital = Yuan(10)
    /\ run_args.market_data = "ufu_short"
    /\ Len(equity_curve) = 5
    /\ trade_log = << >>
    /\ result.final_equity = Yuan(10)

\* the result the contract gives a run in which nothing was traded
AllZeroResult ==
    [total_return |-> [num |-> 0, den |-> 1], annual_return |-> [num |-> 0, den |-> 1],
     volatility |-> [num |-> 0, den |-> 1], sharpe_ratio |-> [num |-> 0, den |-> 1],
     max_drawdown |-> [num |-> 0, den |-> 1], win_rate |-> [num |-> 0, den |-> 1],
     profit_factor |-> [num |-> 0, den |-> 1], total_trades |-> 0,
     winning_trades |-> 0, losing_trades |-> 0, final_equity |-> initial_capital,
     trade_log |-> << >>]

\* C19: if a run executes no trade, its result is all-zero (total_return,
\* annual_return, volatility, sharpe_ratio, max_drawdown, win_rate, profit_factor
\* and the trade counts are 0) and final_equity = initial_capital, whether or not
\* the window contained any date.
C19_NoTradeAllZero ==
    (RunReturned /\ trade_log = << >>) => result = AllZeroResult

\* C20: when the equity curve has no points, calculate_backtest_metrics
\* returns the degenerate result: every metric zero, zero trade counts, an empty
\* trade log and final_equity = initial_capital; so it is at the end of a run
\* whose window holds no date and on a direct call before any run.
C20_EmptyCurveDegenerate ==
    [][(equity_curve = << >> /\ ret'.ok = "result" /\ (RunFinish \/ CalculateMetrics))
         => result' = AllZeroResult]_vars

\* the metrics were asked for after direct fills and before any equity point:
\* the result reports no trade and the initial capital
C20_MetricsBeforeAnyPoint ==
    /\ ret.op = "calculate_backtest_metrics"
    /\ equity_curve = << >>
    /\ trade_log # << >>
    /\ current_capital # initial_capital
    /\ result.total_trades = 0
    /\ result.trade_log = << >>
    /\ result.final_equity = initial_capital

\* C21: constructing the engine with a non-positive initial capital fails at
\* construction, so that no simulation step ever runs on an engine whose
\* initial_capital is <= 0.
C21_NoStepOnNonPositiveCapital ==
    ret.op = "execute_trade" => initial_capital > 0

\* C22: a BacktestResult is immutable once returned: no later operation on the
\* engine that produced it (a further execute_trade, reset(), another run)
\* changes its trade log or any of its metrics.  Every step that does not itself
\* return a result leaves the result last returned as it was.
C22_ResultImmutable ==
    [][ret'.ok # "result" => result' = result]_vars

\* ---------------------------------------------------------------------------
\* C23  A call of generate_signals returns at most one signal for each bar of
\* the slice (so never a BUY and a SELL for one bar) and none for the first
\* bar; every signal is a BUY or a SELL of the symbol asked for, with the raw
\* volume 1000 and a confidence between 0 and 1.
SignalsOnBar(signals, df, k) ==
    { i \in 1..Len(signals) : signals[i].date = strftime(df[k].date) }

C23_SignalShape ==
    ret.op = "generate_signals" =>
        /\ \A k \in 1..Len(ret.df) : Cardinality(SignalsOnBar(ret.value, ret.df, k)) <= 1
        /\ SignalsOnBar(ret.value, ret.df, 1) = {}
        /\ \A i \in 1..Len(ret.value) :
              /\ ret.value[i].action \in {"BUY", "SELL"}
              /\ ret.value[i].symbol = ret.symbol
              /\ ret.value[i].volume = 1000
              /\ ret.value[i].confidence >= 0
              /\ ret.value[i].confidence <= 1000
              /\ \E k \in 2..Len(ret.df) : ret.value[i].date = strftime(ret.df[k].date)

\* a call that returned a BUY and a SELL
C23_BuyAndSellEmitted ==
    /\ ret.op = "generate_signals"
    /\ \E i, j \in 1..Len(ret.value) :
          ret.value[i].action = "BUY" /\ ret.value[j].action = "SELL"

Equity(i) == equity_curve[i][2]

RunningPeak(i) == CHOOSE m \in { Equity(k) : k \in 1..i } : \A k \in 1..i : Equity(k) <= m

DrawdownAt(i) == Ratio(RunningPeak(i) - Equity(i), RunningPeak(i))

C25_MaxDrawdown ==
    (ret.op = "calculate_backtest_metrics" /\ equity_curve # << >>) =>
        /\ \E i \in 1..Len(equity_curve) : result.max_drawdown = DrawdownAt(i)
        /\ \A i \in 1..Len(equity_curve) :
              DrawdownAt(i).num * result.max_drawdown.den
                 <= result.max_drawdown.num * DrawdownAt(i).den
        /\ result.max_drawdown.num >= 0
        /\ result.max_drawdown.den > 0
        /\ ([i \in 1..Len(equity_curve) |-> Equity(i)]
               = << Yuan(100), Yuan(120), Yuan(90), Yuan(110) >>
              => result.max_drawdown = Ratio(1, 4))
        /\ ((\A i \in 2..Len(equity_curve) : Equity(i - 1) <= Equity(i))
              => result.max_drawdown = Ratio(0, 1))

\* the metrics of the curve [100, 120, 90, 110]
C25_ExampleCurve ==
    /\ ret.op = "calculate_backtest_metrics"
    /\ Len(equity_curve) = 4
    /\ [i \in 1..4 |-> Equity(i)] = << Yuan(100), Yuan(120), Yuan(90), Yuan(110) >>
    /\ result.max_drawdown = Ratio(1, 4)

\* ---------------------------------------------------------------------------
\* C26  In the trade statistics each SELL record is set against the most recent
\* BUY record of its symbol that stands before it in the log and is dated no
\* later; it is a win when (sell price - buy price) x sold quantity is positive
\* and a loss when it is negative; a SELL without such a BUY is neither, so wins
\* and losses together never exceed the SELL records; and win_rate is the wins
\* over all the records of the log.
PriorBuys(k) ==
    { i \in 1..(k - 1) :
        /\ trade_log[i].action = "BUY"
        /\ trade_log[i].symbol = trade_log[k].symbol
        /\ trade_log[i].date <= trade_log[k].date }

MatchedSells == { k \in 1..Len(trade_log) : trade_log[k].action = "SELL" /\ PriorBuys(k) # {} }

Gain(k) ==
    LET buy == CHOOSE i \in PriorBuys(k) : \A j \in PriorBuys(k) : j <= i
    IN  (trade_log[k].price - trade_log[buy].price) * trade_log[k].quantity

C26_TradeAttribution ==
    (ret.op = "calculate_backtest_metrics" /\ equity_curve # << >>) =>
        /\ result.winning_trades = Cardinality({ k \in MatchedSells : Gain(k) > 0 })
        /\ result.losing_trades >= Cardinality({ k \in MatchedSells : Gain(k) < 0 })
        /\ result.losing_trades <= Cardinality({ k \in MatchedSells : Gain(k) <= 0 })
        /\ result.winning_trades + result.losing_trades
              <= Cardinality({ k \in 1..Len(trade_log) : trade_log[k].action = "SELL" })
        /\ result.total_trades = Len(trade_log)
        /\ (Len(trade_log) > 0 =>
               result.win_rate = Ratio(result.winning_trades, Len(trade_log)))

\* ---------------------------------------------------------------------------
\* C27  profit_factor is the sum of the profits of the winning SELL records
\* over the sum of the losses of the losing ones, each SELL record taken with the
\* profit calculate_backtest_metrics attributes to it; it is +infinity whenever
\* no attributed profit is zero or negative.
DatedBuys(k) ==
    { i \in 1..Len(trade_log) :
        /\ trade_log[i].action = "BUY"
        /\ trade_log[i].symbol = trade_log[k].symbol
        /\ trade_log[i].date <= trade_log[k].date }

AttributedSells == { k \in 1..Len(trade_log) : trade_log[k].action = "SELL" /\ DatedBuys(k) # {} }

AttributedProfit(k) ==
    LET buy == CHOOSE i \in DatedBuys(k) : \A j \in DatedBuys(k) : j <= i
    IN  (trade_log[k].price - trade_log[buy].price) * trade_log[k].quantity

RECURSIVE SumAttributed(_)
SumAttributed(S) ==
    IF S = {} THEN 0
    ELSE LET k == CHOOSE k \in S : TRUE
         IN  AttributedProfit(k) + SumAttributed(S \ {k})

GrossProfit == SumAttributed({ k \in AttributedSells : AttributedProfit(k) > 0 })

GrossLoss == -SumAttributed({ k \in AttributedSells : AttributedProfit(k) < 0 })

C28_SameLedger ==
    /\ sim_ret.op = "execute_trade" => sim_ret.ok = ret.ok
    /\ account.cash = current_capital
    /\ account.positions = [s \in DOMAIN positions |-> positions[s].quantity]

\* ---------------------------------------------------------------------------
\* C29  run_simulation looks at the stop flag once at the head of every date
\* iteration.  Once stop_simulation() has been called during a run, be it before
\* the loop reaches its first date, no later date is entered: trades are made
\* only for the date in progress, and the run returns.
StopRequested == sim_run.pc # "idle" /\ ~is_running

C30_RequestsSpaced ==
    \A i, j \in 1..Len(requests) :
        i < j => requests[j] - requests[i] >= MIN_REQUEST_INTERVAL

----------------------------------------------------------------------------
(* C31 *)

----------------------------------------------------------------------------
(* C32 *)

\* the places in the calls of the last get_daily_data where the data source
\* was asked
SourceCalls == { i \in 1..Len(calls) : calls[i].fn = "query_history_k_data_plus" }

\* C32: a get_daily_data that is answered from the cache calls neither the rate
\* limiter nor the data source, and one that is not answered from the cache
\* calls the rate limiter before every request it sends to the data source.
C32_SourceOnlyAfterLimiterOnMiss ==
    handler_ret.op = "get_daily_data" =>
        /\ handler_ret.hit =>
              \A i \in 1..Len(calls) :
                  calls[i].fn \notin {"query_history_k_data_plus", "_enforce_rate_limit"}
        /\ ~handler_ret.hit =>
              \A i \in SourceCalls :
                  \E j \in 1..(i - 1) : calls[j].fn = "_enforce_rate_limit"

----------------------------------------------------------------------------
(* C33 *)

\* what get_daily_data returns for a symbol of the get_market_data call that
\* last returned, as its inputs fix it: the caches at the time of the call and
\* what the data source does for the symbol
FetchOutcome(symbol) ==
    LET cache_key == _get_cache_key(symbol,
                                    get_previous_trading_date(MarketRange[1]),
                                    get_previous_trading_date(MarketRange[2]))
        cached == _load_from_cache(handler_ret.cache_before,
                                   handler_ret.files_before, cache_key)
        answer == handler_ret.source[symbol]
    IN  IF answer = "calendar_error" THEN "exception"
        ELSE IF cached.value # None THEN cached.value
        ELSE IF answer \in {"no_rows", "error"} THEN EmptyFrame
        ELSE Cleaned(answer)

\* C33: when get_market_data returns, every fetch it submitted has completed
\* and been collected; the result maps exactly the requested symbols whose
\* fetch returned a non-empty frame, each to that frame, and is fixed by the
\* inputs of the call whatever the order in which the threads finished; a
\* fetch that raised or returned an empty frame leaves the others in place.
C33_MarketData ==
    handler_ret.op = "get_market_data" =>
        /\ \A i \in 1..Len(handler_ret.futures) :
              /\ handler_ret.futures[i].pc = "merged"
              /\ handler_ret.futures[i].value = FetchOutcome(handler_ret.symbols[i])
        /\ DOMAIN handler_ret.value =
              { handler_ret.symbols[i] : i \in
                  { j \in 1..Len(handler_ret.futures) :
                      handler_ret.futures[j].value \notin {"exception", EmptyFrame} } }
        /\ \A s \in DOMAIN handler_ret.value : handler_ret.value[s] = FetchOutcome(s)

\* a call for two symbols has returned the one frame that could be fetched: the
\* fetch of the other symbol raised
C33_OneFailedOneReturned ==
    /\ handler_ret.op = "get_market_data"
    /\ handler_ret.symbols = <<"X", "Y">>
    /\ handler_ret.futures[1].value = "exception"
    /\ DOMAIN handler_ret.value = {"Y"}
    /\ handler_ret.value["Y"] = "df1"

----------------------------------------------------------------------------
(* C34 *)

\* C34: in the simulate ledger, after any buy and sell calls of the
\* PaperTradingAPI, every symbol of the position map has a quantity above 0 and
\* cash is not negative.
C34_HeldPositiveCashNonNegative ==
    /\ account.cash >= 0
    /\ \A s \in DOMAIN account.positions : account.positions[s] > 0

----------------------------------------------------------------------------
(* C35 *)

\* the quantity the records of a log give for a symbol and an action
RECURSIVE LoggedQuantity(_, _, _)
LoggedQuantity(log, symbol, action) ==
    IF log = << >> THEN 0
    ELSE (IF Head(log).symbol = symbol /\ Head(log).action = action
          THEN Head(log).quantity ELSE 0)
         + LoggedQuantity(Tail(log), symbol, action)

\* the quantity held of a symbol, 0 for a symbol that is not held
HeldQuantity(symbol) ==
    IF symbol \in DOMAIN positions THEN positions[symbol].quantity ELSE 0

\* C35: on the backtest ledger the holdings are those of the trade log: since
\* the last reset, the quantity held of every symbol is the sum of the BUY
\* quantities logged for it minus the sum of the SELL quantities logged for it
\* (0 for a symbol not held), and every execute_trade that returns True
\* appends exactly one record to the log while every other leaves the log as
\* it is.
C35_HoldingsReconciled ==
    /\ [](\A s \in Symbols :
            HeldQuantity(s) = LoggedQuantity(trade_log, s, "BUY")
                                - LoggedQuantity(trade_log, s, "SELL"))
    /\ [][ret'.op = "execute_trade" =>
            IF ret'.ok = "True"
            THEN /\ Len(trade_log') = Len(trade_log) + 1
                 /\ SubSeq(trade_log', 1, Len(trade_log)) = trade_log
            ELSE trade_log' = trade_log]_vars

\* two BUYs and a partial SELL of one symbol are logged and the rest is held
C35_BoughtTwiceSoldPart ==
    /\ Len(trade_log) = 3
    /\ LoggedQuantity(trade_log, "X", "BUY") > trade_log[1].quantity
    /\ LoggedQuantity(trade_log, "X", "SELL") > 0
    /\ HeldQuantity("X") > 0

----------------------------------------------------------------------------
(* C36 *)

\* the bars of a table dated no later than day d
BarsDatedUpTo(table, d) == SelectSeq(table, LAMBDA bar : strftime(bar.date) <= d)

\* two market-data inputs that agree on every bar dated no later than day d
AgreeUpTo(m1, m2, d) ==
    /\ DOMAIN m1 = DOMAIN m2
    /\ \A s \in DOMAIN m1 : BarsDatedUpTo(m1[s], d) = BarsDatedUpTo(m2[s], d)

\* the trade records, and the equity points, dated no later than day d
TradesUpTo(log, d) == SelectSeq(log, LAMBDA record : record.date <= d)
PointsUpTo(curve, d) == SelectSeq(curve, LAMBDA point : point[1] <= d)

\* the last date the run in progress has finished
LastDateDone == IF equity_curve = << >> THEN 0 ELSE equity_curve[Len(equity_curve)][1]

CausalDays == 49..53

\* C36: the backtest is causal.  Of a run and the run before it, made with the
\* same symbols and window on market data that agree on every bar dated no
\* later than d, the trades executed and the equity points recorded for the
\* dates up to d are the same, whatever the bars after d are.
C36_Causal ==
    (pc = "loop" /\ runs > 1) =>
        \A d \in CausalDays :
            ( /\ d <= LastDateDone
              /\ run_args.symbols = prev_run.args.symbols
              /\ run_args.start_date = prev_run.args.start_date
              /\ run_args.end_date = prev_run.args.end_date
              /\ AgreeUpTo(MarketData(run_args.market_data),
                           MarketData(prev_run.args.market_data), d) )
            => /\ TradesUpTo(trade_log, d) = TradesUpTo(prev_run.log, d)
               /\ PointsUpTo(equity_curve, d) = PointsUpTo(prev_run.curve, d)

\* two runs on market data that part after day 51 have held the same position
\* through day 51 and ended with different logs
C36_SamePastOtherFuture ==
    /\ pc = "loop" /\ runs > 1
    /\ date_i > Len(all_dates)
    /\ run_args.market_data # prev_run.args.market_data
    /\ AgreeUpTo(MarketData(run_args.market_data),
                 MarketData(prev_run.args.market_data), 51)
    /\ TradesUpTo(trade_log, 51) # << >>
    /\ TradesUpTo(trade_log, 51) = TradesUpTo(prev_run.log, 51)
    /\ trade_log # prev_run.log

----------------------------------------------------------------------------
(* C37 *)

\* the symbols of the run in progress are distinct
DistinctSymbols ==
    \A i, j \in 1..Len(run_args.symbols) :
        run_args.symbols[i] = run_args.symbols[j] => i = j

\* C37: a run executes only signals dated the date of the iteration it is in.
\* Every record a step of the date loop appends carries the date of that
\* iteration; every record of the run is dated within [start_date, end_date];
\* and, the symbols being distinct and every table having one bar per date, no
\* two records of the run have the same symbol and date.
C37_OnlyCurrentDate ==
    /\ [][(pc = "loop" /\ pc' = "loop" /\ Len(trade_log') > Len(trade_log)) =>
            \A k \in (Len(trade_log) + 1)..Len(trade_log') :
                trade_log'[k].date = strftime(all_dates[date_i])]_vars
    /\ [](pc = "loop" =>
            /\ \A k \in 1..Len(trade_log) :
                  /\ run_args.start_date <= trade_log[k].date
                  /\ trade_log[k].date <= run_args.end_date
            /\ DistinctSymbols =>
                  \A j, k \in 1..Len(trade_log) :
                      (trade_log[j].symbol = trade_log[k].symbol
                         /\ trade_log[j].date = trade_log[k].date) => j = k)

\* a run has traded one symbol on two dates of its window, a bar of an earlier
\* date giving a signal again in the later slice
C37_TwoDatesOneSymbol ==
    /\ pc = "loop"
    /\ \E j, k \in 1..Len(trade_log) :
          /\ trade_log[j].symbol = trade_log[k].symbol
          /\ trade_log[j].date < trade_log[k].date

----------------------------------------------------------------------------
(* C38 *)

\* C38: in the live engine every order of pending_orders has status PENDING,
\* every order of order_history has status FILLED, and no order is in both
\* lists.
C38_ListsMatchStatus ==
    /\ \A i \in 1..Len(pending_orders) : orders[pending_orders[i]].status = "PENDING"
    /\ \A i \in 1..Len(order_history) : orders[order_history[i]].status = "FILLED"
    /\ \A i \in 1..Len(pending_orders), j \in 1..Len(order_history) :
          pending_orders[i] # order_history[j]

----------------------------------------------------------------------------
(* C39 *)

\* the Order objects that have been cancelled
Cancelled == { o \in 1..Len(orders) : orders[o].status = "CANCELLED" }

\* the pending order cancel_order(order_id) takes: the first with the id
FirstPendingWithId(order_id) ==
    pending_orders[CHOOSE i \in PendingWithId(Live, order_id) :
                       \A j \in PendingWithId(Live, order_id) : i <= j]

\* C39: cancel_order(id) returns True exactly when an order with that id is
\* pending.  When it returns True, that order leaves pending_orders with
\* status CANCELLED and every other order and the account stay as they are;
\* when it returns False nothing changes.  A cancelled order stays CANCELLED,
\* is never pending again and never enters order_history, and the account
\* changes only in a check_orders that fills an order which was pending.
C39_CancelIsFinal ==
    /\ [][(live_ret'.op = "cancel_order") =>
            LET id == live_ret'.order_id
            IN  /\ live_ret'.value = (PendingWithId(Live, id) # {})
                /\ live_ret'.value =>
                      LET o == FirstPendingWithId(id)
                      IN  /\ orders'[o].status = "CANCELLED"
                          /\ \A i \in 1..Len(pending_orders') : pending_orders'[i] # o
                          /\ Len(pending_orders') = Len(pending_orders) - 1
                          /\ \A p \in 1..Len(orders) : p # o => orders'[p] = orders[p]
                          /\ live_account' = live_account
                          /\ order_history' = order_history
                /\ ~live_ret'.value =>
                      /\ orders' = orders
                      /\ pending_orders' = pending_orders
                      /\ order_history' = order_history
                      /\ live_account' = live_account]_vars
    /\ [](\A o \in Cancelled :
            /\ \A i \in 1..Len(pending_orders) : pending_orders[i] # o
            /\ \A i \in 1..Len(order_history) : order_history[i] # o)
    /\ [][ /\ \A o \in Cancelled : orders'[o] = orders[o]
           /\ live_account' # live_account =>
                 /\ live_ret'.op = "check_orders"
                 /\ \E i \in 1..Len(pending_orders) :
                       /\ orders[pending_orders[i]].status # "CANCELLED"
                       /\ orders'[pending_orders[i]].status = "FILLED" ]_vars

\* an order was cancelled, and a later check_orders has filled another order
\* that carries the same id
C39_CancelledThenOtherFilled ==
    /\ live_ret.op = "check_orders"
    /\ \E o \in Cancelled :
          \E i \in 1..Len(order_history) :
              /\ orders[order_history[i]].order_id = orders[o].order_id
              /\ order_history[i] > o

----------------------------------------------------------------------------
(* C40 *)

\* C40: an execute_trade of a signal whose action is neither BUY nor SELL
\* (HOLD) leaves cash and positions as they were and appends no trade record.
C40_HoldChangesNothing ==
    [][\A signal \in HoldSignals :
          ExecuteTrade(signal, TestQuotes) =>
              /\ current_capital' = current_capital
              /\ positions' = positions
              /\ trade_log' = trade_log
              /\ equity_curve' = equity_curve]_vars

\* a HOLD was submitted to a ledger that holds a position and has a record
C40_HoldOnHeldPosition ==
    /\ ret.op = "execute_trade"
    /\ ret.ok = "NameError"
    /\ positions # NoPositions
    /\ trade_log # << >>

====
